---- MODULE Spec2Model ----
(***************************************************************************)
(* The multi-class timetable solver of scheduler/scheduler.py as a state   *)
(* machine: teacher allocation, the first pass of backtrack_schedule over  *)
(* the priority order, the sweeps of optimize_existing_timetable,          *)
(* make_space_for_failed_schedules and the retry pass.                     *)
(*                                                                         *)
(* The grid is DAYS x PERIODS with both dimensions reduced from the        *)
(* reference 5 x 7; every other number is the program's own.  The random   *)
(* jitter of sort_slots_by_priority is a nondeterministic choice of the    *)
(* order in which the for loop of backtrack_schedule meets the slots.      *)
(***************************************************************************)
EXTENDS Integers, Sequences, FiniteSets, TLC

\* ------------------------------------------------------------------ bounds
\* The grid dimensions (scheduler.py sets 5 and 7; the model runs a reduced grid).
DAYS == 2
PERIODS == 3
\* The largest "sessions" and "teachers" a request of the model gives the
\* first subject, and the largest "sessions" it gives any other subject.
MaxSessions == 5
MaxTeachers == 2
MaxMinorSessions == 2

\* The classes and subjects of a request, in the insertion order of the dicts.
ClassNames == <<"A", "B">>
SubjectNames == <<"M", "E">>
Classes == {ClassNames[i] : i \in 1..Len(ClassNames)}
Subjects == {SubjectNames[i] : i \in 1..Len(SubjectNames)}

None == "None"
NoSlot == <<-1, -1>>

DayRange == 0..(DAYS - 1)
PeriodRange == 0..(PERIODS - 1)
Slots == DayRange \X PeriodRange

\* The slots in the order of "for d in range(DAYS): for p in range(PERIODS)".
SlotSeq == [i \in 1..(DAYS * PERIODS) |-> <<(i - 1) \div PERIODS, (i - 1) % PERIODS>>]

\* ------------------------------------------------------- dict operations
MapPut(f, k, v) == [x \in (DOMAIN f) \cup {k} |-> IF x = k THEN v ELSE f[x]]
MapDel(f, k) == [x \in (DOMAIN f) \ {k} |-> f[x]]
EmptyMap == [x \in {} |-> 0]

\* The subsequence of seq whose elements satisfy Keep, in order.
RECURSIVE FilterSeq(_, _)
FilterSeq(seq, keep) ==
    IF seq = <<>> THEN <<>>
    ELSE IF Head(seq) \in keep THEN <<Head(seq)>> \o FilterSeq(Tail(seq), keep)
    ELSE FilterSeq(Tail(seq), keep)

\* -------------------------------------------------- binary64 arithmetic
\* calculate_distribution_score adds 1 and subtracts 0.2 * (count - 1) in
\* binary64.  A value is kept exactly as the pair <<n, m>> standing for
\* n/5 + m * u with u = 2^-55 / 5: n counts fifths and m is the rounding
\* error, always far below one fifth.  The literal 0.2 is <<1, 2>>.
Pow2(e) == IF e = 0 THEN 1 ELSE IF e = 1 THEN 2 ELSE IF e = 2 THEN 4
           ELSE IF e = 3 THEN 8 ELSE IF e = 4 THEN 16 ELSE IF e = 5 THEN 32 ELSE 64

\* 2^e mod 5.
Pow2Mod5(e) == LET r == e % 4 IN IF r = 0 THEN 1 ELSE IF r = 1 THEN 2 ELSE IF r = 2 THEN 4 ELSE 3

\* The binade of a positive value with n >= 1: its ulp is 2^(j-55), i.e. 5 * 2^j in units of u.
FBinade(n, m) ==
    LET ge(b) == n > b \/ (n = b /\ m >= 0)
    IN  IF ge(20) THEN 5 ELSE IF ge(10) THEN 4 ELSE IF ge(5) THEN 3
        ELSE IF n >= 3 THEN 2 ELSE IF n >= 2 THEN 1 ELSE 0

\* (n * 2^55 + m) mod (5 * 2^j): the part of the value below a multiple of 2^j ulps.
FRem(n, m, j) == (Pow2(j) * ((n * Pow2Mod5(55 - j)) % 5) + m) % (5 * Pow2(j))

\* Round to nearest, ties to even: r is the value's part below a multiple of
\* the ulp, r2 its part below a multiple of two ulps (r2 = r: the multiple is even).
FRoundWith(n, m, ulp, r, r2) ==
    IF 2 * r < ulp THEN <<n, m - r>>
    ELSE IF 2 * r > ulp THEN <<n, m + ulp - r>>
    ELSE IF r2 = r THEN <<n, m - r>>
    ELSE <<n, m + ulp - r>>

FRoundAt(n, m, j) == FRoundWith(n, m, 5 * Pow2(j), FRem(n, m, j), FRem(n, m, j + 1))

\* A value that is not negative; a value below one fifth is a difference of
\* two near values and exact.
FRoundPos(n, m) == IF n = 0 THEN <<n, m>> ELSE FRoundAt(n, m, FBinade(n, m))

FNeg(a) == <<-a[1], -a[2]>>

FRound(n, m) ==
    IF n < 0 \/ (n = 0 /\ m < 0) THEN FNeg(FRoundPos(-n, -m)) ELSE FRoundPos(n, m)

FAdd(a, b) == FRound(a[1] + b[1], a[2] + b[2])
FSub(a, b) == FRound(a[1] - b[1], a[2] - b[2])
\* 0.2 * k for an integer k >= 0.
FTimesFifth(k) == FRound(k, 2 * k)
FOne == <<5, 0>>
FZero == <<0, 0>>
FLess(a, b) == a[1] < b[1] \/ (a[1] = b[1] /\ a[2] < b[2])

\* ----------------------------------------------------- pure functions
\* day_counts[d] of a timetable for a subject.
DayCount(timetable, subject, d) ==
    Cardinality({p \in PeriodRange : timetable[<<d, p>>] = subject})

PeriodCount(timetable, subject, p) ==
    Cardinality({d \in DayRange : timetable[<<d, p>>] = subject})

SlotsPerDay(timetable, d) ==
    Cardinality({p \in PeriodRange : timetable[<<d, p>>] # None})

SubjectSlots(timetable, subject) == {slot \in Slots : timetable[slot] = subject}

\* One iteration of "for count in day_counts".
ScoreDay(acc, count) ==
    IF count > 1 THEN FSub(FAdd(acc, FOne), FTimesFifth(count - 1))
    ELSE IF count > 0 THEN FAdd(acc, FOne)
    ELSE acc

\* calculate_distribution_score: the loop over day_counts, day 0 first.
RECURSIVE ScoreFrom(_, _, _, _)
ScoreFrom(timetable, subject, d, acc) ==
    IF d = DAYS THEN acc
    ELSE ScoreFrom(timetable, subject, d + 1, ScoreDay(acc, DayCount(timetable, subject, d)))

calculate_distribution_score(timetable, subject) == ScoreFrom(timetable, subject, 0, FZero)

Abs(x) == IF x < 0 THEN -x ELSE x

\* A priority without the extra penalty of a slot between two sessions.
SlotPriorityNoSurround(timetable, subject, d, p) ==
    LET dc == DayCount(timetable, subject, d)
        before == p > 0 /\ timetable[<<d, p - 1>>] = subject
        after == p < PERIODS - 1 /\ timetable[<<d, p + 1>>] = subject
    IN  (IF dc = 0 THEN -150 ELSE dc * 60)
        + (IF before THEN 40 ELSE 0)
        + (IF after THEN 40 ELSE 0)
        + PeriodCount(timetable, subject, p) * 30
        + SlotsPerDay(timetable, d) * 5
        + Abs(p - (PERIODS \div 2)) * 2

\* The priority sort_slots_by_priority gives an empty slot before the jitter,
\* in tenths.
SlotPriority10(timetable, subject, d, p) ==
    LET dc == DayCount(timetable, subject, d)
        before == p > 0 /\ timetable[<<d, p - 1>>] = subject
        after == p < PERIODS - 1 /\ timetable[<<d, p + 1>>] = subject
    IN  (IF dc = 0 THEN -150 ELSE dc * 60)
        + (IF before THEN 40 ELSE 0)
        + (IF after THEN 40 ELSE 0)
        + (IF before /\ after THEN 50 ELSE 0)
        + PeriodCount(timetable, subject, p) * 30
        + SlotsPerDay(timetable, d) * 5
        + Abs(p - (PERIODS \div 2)) * 2

\* A scan that stops after the first day.
FirstDayOnly(timetable, subject) ==
    [slot \in {s \in Slots : timetable[s] = None /\ s[1] = 0} |->
        SlotPriority10(timetable, subject, slot[1], slot[2])]

\* sort_slots_by_priority: the empty slots, each with its priority before the
\* jitter.  The sorted list itself is one of the orders JitterFirst allows.
sort_slots_by_priority(timetable, subject) ==
    [slot \in {s \in Slots : timetable[s] = None} |->
        SlotPriority10(timetable, subject, slot[1], slot[2])]

\* An order under a jitter drawn from [0, 25).
WideJitterFirst(prio, cand) ==
    {a \in cand : \A b \in cand \ {a} : prio[a] < prio[b] + 250}

\* The slots that can come first among cand once random.uniform(0, 1) is added
\* to every priority: slot a can precede slot b iff prio[a] < prio[b] + 1.
JitterFirst(prio, cand) ==
    {a \in cand : \A b \in cand \ {a} : prio[a] < prio[b] + 10}

\* A check that finds every teacher free.
AlwaysAvailable(teacher_assignments_global, subject, slot, teacher_id) == TRUE

is_teacher_available(teacher_assignments_global, subject, slot, teacher_id) ==
    teacher_id \notin DOMAIN teacher_assignments_global[subject][slot]

\* The label the injected naming function returns: its arguments.
get_teacher_for_subject(class_name, subject, d, p, teacher_id) ==
    <<class_name, subject, d, p, teacher_id>>

\* ------------------------------------------------------------ requests
\* class_subject_data: class_name -> subject -> {"sessions", "teachers"}.
Entry(n, t) == [sessions |-> n, teachers |-> t]

\* A request: the sessions of the major subject (the first of SubjectNames) and
\* of the minor subject for each class.  As the window's global settings do,
\* every class carries the same number of teachers for a subject: teachers for
\* the major subject, one for the minor.
Request(major, minor, teachers) ==
    [c \in Classes |-> [s \in Subjects |->
        IF s = SubjectNames[1] THEN Entry(major[c], teachers) ELSE Entry(minor[c], 1)]]

\* The settings applied to all classes: every class asks the same.
UniformRequests ==
    {Request([c \in Classes |-> m], [c \in Classes |-> e], t) :
        m \in 0..MaxSessions, e \in 0..MaxMinorSessions, t \in 1..MaxTeachers}

\* Classes that differ in the major subject; the first class alone asks for the
\* minor subject.
MixedRequests ==
    {Request(major, [c \in Classes |-> IF c = ClassNames[1] THEN e ELSE 0], t) :
        major \in [Classes -> 0..MaxSessions], e \in 0..MaxMinorSessions, t \in 1..MaxTeachers}

\* The requests of the model.  All of them are valid input:
\* sessions <= DAYS x PERIODS, teachers >= 1.
ValidRequests == UniformRequests \cup MixedRequests

ValidInput(data) ==
    \A c \in Classes : \A s \in Subjects :
        /\ data[c][s].sessions <= DAYS * PERIODS
        /\ (data[c][s].sessions > 0 => data[c][s].teachers >= 1)

\* ------------------------------------------------------ teacher allocator
\* The class names a request can carry, in the order of its items().
RosterNames == <<"A", "B", "C">>
ClassOrder(data) == FilterSeq(RosterNames, DOMAIN data)

NeedsSubject(data, c, subject) == data[c][subject].sessions > 0

\* teacher_counts after the first loop: a zero for every index below the
\* "teachers" of some class that needs the subject.
InitialTeacherCounts(data, subject) ==
    [i \in {i \in 0..(MaxTeachers + DAYS * PERIODS) :
              \E c \in DOMAIN data : NeedsSubject(data, c, subject) /\ i < data[c][subject].teachers}
       |-> 0]

\* A choice that never leaves the initial best_teacher.
FirstTeacher(counts, teachers, i, min_count, best_teacher) == 0

\* A scan that lets a later index with an equal count replace the best one.
RECURSIVE LastBestTeacher(_, _, _, _, _)
LastBestTeacher(counts, teachers, i, min_count, best_teacher) ==
    IF i >= teachers THEN best_teacher
    ELSE IF i \in DOMAIN counts /\ (min_count = -1 \/ counts[i] <= min_count)
         THEN LastBestTeacher(counts, teachers, i + 1, counts[i], i)
         ELSE LastBestTeacher(counts, teachers, i + 1, min_count, best_teacher)

\* "for i in range(teachers): if i in teacher_counts and teacher_counts[i] < min_count".
RECURSIVE BestTeacher(_, _, _, _, _)
BestTeacher(counts, teachers, i, min_count, best_teacher) ==
    IF i >= teachers THEN best_teacher
    ELSE IF i \in DOMAIN counts /\ (min_count = -1 \/ counts[i] < min_count)
         THEN BestTeacher(counts, teachers, i + 1, counts[i], i)
         ELSE BestTeacher(counts, teachers, i + 1, min_count, best_teacher)

\* The second loop over the classes, in request order, for one subject.
RECURSIVE AssignTeachers(_, _, _, _, _)
AssignTeachers(data, subject, k, counts, acc) ==
    IF k > Len(ClassOrder(data)) THEN acc
    ELSE LET c == ClassOrder(data)[k]
         IN  IF NeedsSubject(data, c, subject)
             THEN LET best == BestTeacher(counts, data[c][subject].teachers, 0, -1, 0)
                      old == IF best \in DOMAIN counts THEN counts[best] ELSE 0
                  IN  AssignTeachers(data, subject, k + 1,
                                     MapPut(counts, best, old + 1), MapPut(acc, c, best))
             ELSE AssignTeachers(data, subject, k + 1, counts, acc)

\* class_subject_teacher: class_name -> subject -> teacher index, for the
\* pairs with sessions > 0.
AllocateTeachers(data) ==
    LET bySubject == [s \in Subjects |->
                        AssignTeachers(data, s, 1, InitialTeacherCounts(data, s), EmptyMap)]
    IN  [c \in {c \in DOMAIN data : \E s \in Subjects : NeedsSubject(data, c, s)} |->
            [s \in {s \in Subjects : NeedsSubject(data, c, s)} |-> bySubject[s][c]]]

\* ------------------------------------------------------ priority orderer
\* Python compares the names as strings.
AlphaOrder == <<"A", "B", "C", "E", "M">>
NameRank(name) == CHOOSE i \in 1..Len(AlphaOrder) : AlphaOrder[i] = name

ClassTotal(data, c) ==
    LET RECURSIVE Sum(_)
        Sum(k) == IF k > Len(SubjectNames) THEN 0
                  ELSE data[c][SubjectNames[k]].sessions + Sum(k + 1)
    IN  Sum(1)

\* (priority, (class_name, subject)) as one tuple of integers.
PriorityKey(data, c, s) ==
    <<data[c][s].teachers, -data[c][s].sessions, -ClassTotal(data, c), NameRank(c), NameRank(s)>>

RECURSIVE TupleLess(_, _)
TupleLess(a, b) ==
    IF a = <<>> THEN FALSE
    ELSE IF Head(a) # Head(b) THEN Head(a) < Head(b)
    ELSE TupleLess(Tail(a), Tail(b))

RECURSIVE SortPairs(_, _)
SortPairs(data, pairs) ==
    IF pairs = {} THEN <<>>
    ELSE LET first == CHOOSE x \in pairs : \A y \in pairs \ {x} :
                          TupleLess(PriorityKey(data, x[1], x[2]), PriorityKey(data, y[1], y[2]))
         IN  <<first>> \o SortPairs(data, pairs \ {first})

\* An order that lists every pair twice.
DoubledOrder(data) ==
    SortPairs(data, {<<c, s>> \in (DOMAIN data) \X Subjects : data[c][s].sessions # 0})
        \o SortPairs(data, {<<c, s>> \in (DOMAIN data) \X Subjects : data[c][s].sessions # 0})

\* The sorted list taken from its end: the least constrained pair first.
LeastConstrainedFirst(data) ==
    LET sorted == SortPairs(data, {<<c, s>> \in (DOMAIN data) \X Subjects : data[c][s].sessions # 0})
    IN  [i \in 1..Len(sorted) |-> sorted[Len(sorted) + 1 - i]]

get_priority_order(data) ==
    SortPairs(data, {<<c, s>> \in (DOMAIN data) \X Subjects : data[c][s].sessions # 0})

Reverse(seq) == [i \in 1..Len(seq) |-> seq[Len(seq) + 1 - i]]

\* ------------------------------------------------------------------ state
VARIABLES
    class_subject_data,          \* the request
    class_timetables,            \* class_name -> {"timetable", "teacher_assignments"}
    teacher_assignments_global,  \* subject -> slot -> teacher index -> class_name
    class_subject_teacher,       \* class_name -> subject -> teacher index
    failed_schedules,            \* the (class_name, subject, total_sessions) of the first pass
    final_failures,              \* the pairs "Final failure" was printed for
    freed_slots,                 \* the (class_name, subject, slot) the resolver evicted
    slots_to_free,               \* the resolver's budget
    pc,                          \* the phase of generate_schedule_for_classes
    idx,                         \* the position of the phase's for loop
    sweep,                       \* the calls of optimize_existing_timetable made
    opt,                         \* the position inside optimize_existing_timetable
    stack,                       \* the frames of backtrack_schedule, outermost first
    ret,                         \* the value the last backtrack_schedule call returned
    pre_opt,                     \* class_timetables when the optimizer phase began
    previous_result              \* what an earlier call with the same arguments returned

vars == <<class_subject_data, class_timetables, teacher_assignments_global,
          class_subject_teacher, failed_schedules, final_failures, freed_slots,
          slots_to_free, pc, idx, sweep, opt, stack, ret, pre_opt, previous_result>>

Timetable(c) == class_timetables[c].timetable
Assignments(c) == class_timetables[c].teacher_assignments

Snapshot(ct, tag) == [ct |-> ct, tag |-> tag]
\* The call that returned last: its value, its arguments, the tables at its
\* entry and the number of placements it undid.
NoRet == [kind |-> "none", class_name |-> None, subject |-> None, sessions_left |-> 0,
          is_retry |-> FALSE, entry |-> <<>>, undone |-> 0]
Returned(value, c, s, n, is_retry, entry, undone) ==
    [kind |-> IF value THEN "true" ELSE "false", class_name |-> c, subject |-> s,
     sessions_left |-> n, is_retry |-> is_retry, entry |-> entry, undone |-> undone]

NoOpt == [queue |-> <<>>, class_name |-> None, subject |-> None, slots |-> <<>>,
          current_score |-> FZero, made_improvements |-> FALSE]

\* -------------------------------------------------- writes to the tables
\* "timetable[d][p] = subject; teacher_assignments[slot] = teacher".
PlaceSession(ct, c, s, slot, teacher) ==
    [ct EXCEPT ![c].timetable[slot] = s,
               ![c].teacher_assignments[s] = MapPut(@, slot, teacher)]

\* A write of the entry under every subject.
GlobalAddAllSubjects(tag, s, slot, teacher_id, c) ==
    [x \in DOMAIN tag |-> [tag[x] EXCEPT ![slot] = MapPut(@, teacher_id, c)]]

\* A placement that leaves the occupancy table as it is.
GlobalAddForgotten(tag, s, slot, teacher_id, c) == tag

\* "teacher_assignments_global[subject][slot][teacher_id] = class_name".
GlobalAdd(tag, s, slot, teacher_id, c) ==
    [tag EXCEPT ![s][slot] = MapPut(@, teacher_id, c)]

\* A removal that clears the cell and keeps the class's entry.
ClearCellOnly(ct, c, s, slot) == [ct EXCEPT ![c].timetable[slot] = None]

\* "timetable[d][p] = None; del teacher_assignments[slot]".
RemoveSession(ct, c, s, slot) ==
    [ct EXCEPT ![c].timetable[slot] = None,
               ![c].teacher_assignments[s] = MapDel(@, slot)]

\* "del teacher_assignments_global[subject][slot][teacher_id]".
GlobalDel(tag, s, slot, teacher_id) ==
    [tag EXCEPT ![s][slot] = MapDel(@, teacher_id)]

\* ------------------------------------------------------ backtrack_schedule
\* The frame of a call with sessions_left > 0, after sort_slots_by_priority and,
\* in retry mode, the append of the empty slots the sorted list lacks.
NewFrame(ct, tag, c, s, n, max_attempts, is_retry) ==
    LET prio == sort_slots_by_priority(ct[c].timetable, s)
        all_possible_slots == FilterSeq(SlotSeq, {x \in Slots : ct[c].timetable[x] = None})
    IN  [class_name |-> c, subject |-> s, sessions_left |-> n,
         max_attempts |-> max_attempts, is_retry |-> is_retry,
         teacher_id |-> class_subject_teacher[c][s],
         prio |-> prio,
         extra |-> IF is_retry THEN FilterSeq(all_possible_slots, Slots \ DOMAIN prio) ELSE <<>>,
         tried |-> {}, attempts |-> 0, slot |-> NoSlot,
         entry |-> Snapshot(ct, tag), undone |-> 0]

Top == stack[Len(stack)]
SetTop(f) == [stack EXCEPT ![Len(stack)] = f]
Pop == SubSeq(stack, 1, Len(stack) - 1)

\* The slots of the sorted list the loop has not reached.
Untried(f) == (DOMAIN f.prio) \ f.tried
ExtraLeft(f) == FilterSeq(f.extra, Slots \ f.tried)
\* A loop that gives up after its first iteration.
FirstAttemptOnly(f) ==
    IF f.attempts > 0 THEN {}
    ELSE IF Untried(f) # {} THEN JitterFirst(f.prio, Untried(f))
    ELSE IF ExtraLeft(f) # <<>> THEN {Head(ExtraLeft(f))}
    ELSE {}

\* The slots that may be the loop's next one.
NextSlots(f) ==
    IF Untried(f) # {} THEN JitterFirst(f.prio, Untried(f))
    ELSE IF ExtraLeft(f) # <<>> THEN {Head(ExtraLeft(f))}
    ELSE {}

\* A gate that is not switched off in retry mode.
GateInRetryToo(timetable, f, slot, attempts) ==
    /\ FLess(calculate_distribution_score([timetable EXCEPT ![slot] = f.subject], f.subject), FOne)
    /\ f.sessions_left < 5
    /\ attempts < f.max_attempts \div 2

\* A gate that does not look at the number of sessions left.
GateWithoutSessionLimit(timetable, f, slot, attempts) ==
    /\ ~f.is_retry
    /\ FLess(calculate_distribution_score([timetable EXCEPT ![slot] = f.subject], f.subject), FOne)
    /\ attempts < f.max_attempts \div 2

\* The distribution gate of the first pass, for attempt number "attempts".
SkipDueToDistribution(timetable, f, slot, attempts) ==
    /\ ~f.is_retry
    /\ FLess(calculate_distribution_score([timetable EXCEPT ![slot] = f.subject], f.subject), FOne)
    /\ f.sessions_left < 5
    /\ attempts < f.max_attempts \div 2

\* A call of backtrack_schedule from the state (ct, tag): it returns True at
\* once when sessions_left = 0 and enters its loop otherwise.
CallBacktrack(ct, tag, c, s, n, max_attempts, is_retry) ==
    IF n = 0
    THEN /\ ret' = Returned(TRUE, c, s, n, is_retry, Snapshot(ct, tag), 0)
         /\ stack' = stack
    ELSE /\ ret' = NoRet
         /\ stack' = Append(stack, NewFrame(ct, tag, c, s, n, max_attempts, is_retry))

Frame == <<class_subject_data, class_subject_teacher, failed_schedules, final_failures,
           freed_slots, slots_to_free, pc, idx, sweep, opt, pre_opt, previous_result>>

\* One iteration of "for slot in sorted_slots": the slot is skipped, or the
\* session is placed and the recursive call made.
BtTry ==
    /\ stack # <<>>
    /\ ret.kind = "none"
    /\ Top.attempts < Top.max_attempts
    /\ \E slot \in NextSlots(Top) :
        LET f == Top
            c == f.class_name
            s == f.subject
            attempts == f.attempts + 1
            f1 == [f EXCEPT !.tried = @ \cup {slot}, !.attempts = attempts]
            skip == \/ Timetable(c)[slot] # None
                    \/ ~is_teacher_available(teacher_assignments_global, s, slot, f.teacher_id)
                    \/ SkipDueToDistribution(Timetable(c), f, slot, attempts)
            teacher == get_teacher_for_subject(c, s, slot[1], slot[2], f.teacher_id)
            ct1 == PlaceSession(class_timetables, c, s, slot, teacher)
            tag1 == GlobalAdd(teacher_assignments_global, s, slot, f.teacher_id, c)
        IN  IF skip
            THEN /\ stack' = SetTop(f1)
                 /\ UNCHANGED <<class_timetables, teacher_assignments_global, ret>>
            ELSE /\ class_timetables' = ct1
                 /\ teacher_assignments_global' = tag1
                 /\ IF f.sessions_left - 1 = 0
                    THEN /\ stack' = SetTop([f1 EXCEPT !.slot = slot])
                         /\ ret' = Returned(TRUE, c, s, 0, f.is_retry, Snapshot(ct1, tag1), 0)
                    ELSE /\ stack' = Append(SetTop([f1 EXCEPT !.slot = slot]),
                                            NewFrame(ct1, tag1, c, s, f.sessions_left - 1,
                                                     f.max_attempts, f.is_retry))
                         /\ ret' = NoRet
    /\ UNCHANGED Frame

\* The loop ends (no slot is left, or max_attempts is reached): "return False".
BtFail ==
    /\ stack # <<>>
    /\ ret.kind = "none"
    /\ (NextSlots(Top) = {} \/ Top.attempts >= Top.max_attempts)
    /\ ret' = Returned(FALSE, Top.class_name, Top.subject, Top.sessions_left,
                       Top.is_retry, Top.entry, Top.undone)
    /\ stack' = Pop
    /\ UNCHANGED <<class_timetables, teacher_assignments_global>>
    /\ UNCHANGED Frame

\* The recursive call returned True: "return True".
BtSucceed ==
    /\ stack # <<>>
    /\ ret.kind = "true"
    /\ ret' = Returned(TRUE, Top.class_name, Top.subject, Top.sessions_left,
                       Top.is_retry, Top.entry, Top.undone)
    /\ stack' = Pop
    /\ UNCHANGED <<class_timetables, teacher_assignments_global>>
    /\ UNCHANGED Frame

\* The recursive call returned False: the "Backtrack" lines undo the placement.
\* A backtrack that leaves the session in the grid.
KeepPlacement(ct, c, s, slot) == ct

UndoPlacement(ct, c, s, slot) == RemoveSession(ct, c, s, slot)
\* A backtrack that leaves the occupancy entry.
NoUndoGlobal(tag, s, slot, teacher_id) == tag

UndoGlobal(tag, s, slot, teacher_id) == GlobalDel(tag, s, slot, teacher_id)

BtBacktrack ==
    /\ stack # <<>>
    /\ ret.kind = "false"
    /\ class_timetables' = UndoPlacement(class_timetables, Top.class_name, Top.subject, Top.slot)
    /\ teacher_assignments_global' =
          UndoGlobal(teacher_assignments_global, Top.subject, Top.slot, Top.teacher_id)
    /\ stack' = SetTop([Top EXCEPT !.slot = NoSlot, !.undone = @ + 1])
    /\ ret' = NoRet
    /\ UNCHANGED Frame

\* --------------------------------------------- optimize_existing_timetable
\* The (class_name, subject) pairs in the order of the two outer for loops.
OptPairs(ct) ==
    LET RECURSIVE PairsFrom(_)
        PairsFrom(k) ==
            IF k > Len(ClassNames) THEN <<>>
            ELSE LET c == ClassNames[k]
                     subjects == FilterSeq(SubjectNames, DOMAIN ct[c].teacher_assignments)
                 IN  [i \in 1..Len(subjects) |-> <<c, subjects[i]>>] \o PairsFrom(k + 1)
    IN  PairsFrom(1)

\* subject_slots, in the order of the scan.
SubjectSlotSeq(timetable, subject) == FilterSeq(SlotSeq, SubjectSlots(timetable, subject))

\* The loops run on to the next pair with at least 2 sessions ("if
\* len(subject_slots) < 2: continue"), where subject_slots and current_score
\* are taken, or to the end of the call.
RECURSIVE OptAdvance(_, _, _)
OptAdvance(ct, queue, made_improvements) ==
    IF queue = <<>>
    THEN [NoOpt EXCEPT !.made_improvements = made_improvements]
    ELSE LET c == Head(queue)[1]
             s == Head(queue)[2]
             subject_slots == SubjectSlotSeq(ct[c].timetable, s)
         IN  IF Len(subject_slots) < 2
             THEN OptAdvance(ct, Tail(queue), made_improvements)
             ELSE [queue |-> Tail(queue), class_name |-> c, subject |-> s,
                   slots |-> subject_slots,
                   current_score |-> calculate_distribution_score(ct[c].timetable, s),
                   made_improvements |-> made_improvements]

\* "for new_slot in available_slots": best holds <<best_slot, best_score>>, and
\* a slot other than old_slot replaces it when its score is higher.
RECURSIVE BestRelocation(_, _, _, _, _)
BestRelocation(timetable, subject, available_slots, old_slot, best) ==
    IF available_slots = <<>> THEN best
    ELSE BestRelocation(timetable, subject, Tail(available_slots), old_slot,
            LET new_slot == Head(available_slots)
                score == calculate_distribution_score(
                             [timetable EXCEPT ![new_slot] = subject], subject)
            IN  IF new_slot # old_slot /\ FLess(best[2], score)
                THEN <<new_slot, score>> ELSE best)

\* "if best_slot and best_score > current_score".
RelocationChoice(best, current_score) ==
    IF best[1] # NoSlot /\ FLess(current_score, best[2]) THEN best[1] ELSE NoSlot

\* The empty slots, whoever teaches there.
EmptySlotsOnly(removed, tag, s, teacher_id) ==
    FilterSeq(SlotSeq, {x \in Slots : removed[x] = None})

\* available_slots of the timetable with the session at old_slot taken out.
AvailableSlots(removed, tag, s, teacher_id) ==
    FilterSeq(SlotSeq, {x \in Slots : /\ removed[x] = None
                                      /\ is_teacher_available(tag, s, x, teacher_id)})

\* A relocation to the first available slot, whatever its score.
RelocateAnywhere(removed, tag, s, old_slot, teacher_id, current_score) ==
    LET free == FilterSeq(AvailableSlots(removed, tag, s, teacher_id), Slots \ {old_slot})
    IN  IF free = <<>> THEN NoSlot ELSE Head(free)

RelocationFrom(removed, tag, s, old_slot, teacher_id, current_score) ==
    RelocationChoice(BestRelocation(removed, s, AvailableSlots(removed, tag, s, teacher_id),
                                    old_slot, <<NoSlot, current_score>>),
                     current_score)

\* The slot the session at old_slot moves to, or NoSlot when it stays.
RelocationTarget(ct, tag, c, s, old_slot, teacher_id, current_score) ==
    RelocationFrom([ct[c].timetable EXCEPT ![old_slot] = None], tag, s, old_slot,
                   teacher_id, current_score)

\* The tables after the session at old_slot moved to best_slot with its label.
MoveSession(ct, c, s, old_slot, best_slot) ==
    LET teacher == ct[c].teacher_assignments[s][old_slot]
    IN  [ct EXCEPT ![c].timetable = [@ EXCEPT ![old_slot] = None, ![best_slot] = s],
                   ![c].teacher_assignments[s] = MapPut(MapDel(@, old_slot), best_slot, teacher)]

\* A relocation that records teacher 0 at the new slot.
MoveGlobalFirstTeacher(tag, c, s, old_slot, best_slot, teacher_id) ==
    GlobalAdd(GlobalDel(tag, s, old_slot, teacher_id), s, best_slot, 0, c)

MoveGlobal(tag, c, s, old_slot, best_slot, teacher_id) ==
    GlobalAdd(GlobalDel(tag, s, old_slot, teacher_id), s, best_slot, teacher_id, c)

OptFrame == <<class_subject_data, class_subject_teacher, failed_schedules, final_failures,
              freed_slots, slots_to_free, idx, stack, ret, pre_opt, previous_result>>

\* A call of optimize_existing_timetable begins.
OptCall ==
    /\ pc = "optimize"
    /\ opt' = OptAdvance(class_timetables, OptPairs(class_timetables), FALSE)
    /\ pc' = "optimizing"
    /\ UNCHANGED <<class_timetables, teacher_assignments_global, sweep>>
    /\ UNCHANGED OptFrame

\* The tables and the loop position after old_slot was handled: the session is
\* at best_slot, or back at old_slot when best_slot is NoSlot.
OptMoved(ct1, tag1, made) ==
    /\ class_timetables' = ct1
    /\ teacher_assignments_global' = tag1
    /\ opt' = IF Tail(opt.slots) # <<>>
              THEN [opt EXCEPT !.slots = Tail(@), !.made_improvements = made]
              ELSE OptAdvance(ct1, opt.queue, made)

OptRelocate(c, s, old_slot, teacher_id, best_slot) ==
    IF best_slot # NoSlot
    THEN OptMoved(MoveSession(class_timetables, c, s, old_slot, best_slot),
                  MoveGlobal(teacher_assignments_global, c, s, old_slot, best_slot, teacher_id),
                  TRUE)
    ELSE OptMoved(class_timetables, teacher_assignments_global, opt.made_improvements)

OptOldSlot(c, s, old_slot, teacher_id) ==
    OptRelocate(c, s, old_slot, teacher_id,
                RelocationTarget(class_timetables, teacher_assignments_global,
                                 c, s, old_slot, teacher_id, opt.current_score))

\* One iteration of "for old_slot in subject_slots".
OptSession ==
    /\ pc = "optimizing"
    /\ opt.slots # <<>>
    /\ OptOldSlot(opt.class_name, opt.subject, Head(opt.slots),
                  class_subject_teacher[opt.class_name][opt.subject])
    /\ UNCHANGED <<pc, sweep>>
    /\ UNCHANGED OptFrame

\* A loop around the call that always makes its three calls.
OptReturnAlwaysThree ==
    /\ pc = "optimizing"
    /\ opt.slots = <<>>
    /\ sweep' = sweep + 1
    /\ pc' = IF sweep + 1 < 3 THEN "optimize" ELSE "optimized"
    /\ opt' = NoOpt
    /\ UNCHANGED <<class_timetables, teacher_assignments_global>>
    /\ UNCHANGED OptFrame

\* "return made_improvements" and the loop "for _ in range(3)" around the call.
OptReturn ==
    /\ pc = "optimizing"
    /\ opt.slots = <<>>
    /\ sweep' = sweep + 1
    /\ pc' = IF opt.made_improvements /\ sweep + 1 < 3 THEN "optimize" ELSE "optimized"
    /\ opt' = NoOpt
    /\ UNCHANGED <<class_timetables, teacher_assignments_global>>
    /\ UNCHANGED OptFrame

\* ----------------------------------------- make_space_for_failed_schedules
FailedMap == {<<failed_schedules[i][1], failed_schedules[i][2]>> : i \in 1..Len(failed_schedules)}

\* "for slot in subject_slots": best holds <<best_slot_to_remove,
\* best_score_after_removal>>, NoSlot standing for None with a score of -inf;
\* a slot replaces it when the score without that slot's session is higher.
RECURSIVE BestRemoval(_, _, _, _)
BestRemoval(timetable, subject, subject_slots, best) ==
    IF subject_slots = <<>> THEN best
    ELSE BestRemoval(timetable, subject, Tail(subject_slots),
            LET slot == Head(subject_slots)
                score == calculate_distribution_score(
                             [timetable EXCEPT ![slot] = None], subject)
            IN  IF best[1] = NoSlot \/ FLess(best[2], score)
                THEN <<slot, score>> ELSE best)

\* The first session of the subject, whatever its removal leaves.
first_slot_to_remove(timetable, subject) ==
    IF SubjectSlotSeq(timetable, subject) = <<>> THEN NoSlot
    ELSE Head(SubjectSlotSeq(timetable, subject))

best_slot_to_remove(timetable, subject) ==
    BestRemoval(timetable, subject, SubjectSlotSeq(timetable, subject), <<NoSlot, FZero>>)[1]

\* The eviction: the cell, the class's entry and, when present, the global entry.
Evict(ct, c, s, slot) == RemoveSession(ct, c, s, slot)
\* An eviction that leaves the global entry.
EvictGlobalKept(tag, s, slot, teacher_id) == tag

EvictGlobal(tag, s, slot, teacher_id) ==
    IF teacher_id \in DOMAIN tag[s][slot] THEN GlobalDel(tag, s, slot, teacher_id) ELSE tag

\* ------------------------------------------ generate_schedule_for_classes
priority_order == get_priority_order(class_subject_data)
reverse_priority == Reverse(priority_order)

InitialTimetables(data) ==
    [c \in DOMAIN data |->
        [timetable |-> [slot \in Slots |-> None],
         teacher_assignments |-> [s \in {s \in Subjects : data[c][s].sessions > 0} |-> EmptyMap]]]

InitWith(requests) ==
    /\ class_subject_data \in requests
    /\ class_timetables = InitialTimetables(class_subject_data)
    /\ teacher_assignments_global = EmptyMap
    /\ class_subject_teacher = EmptyMap
    /\ failed_schedules = <<>>
    /\ final_failures = {}
    /\ freed_slots = <<>>
    /\ slots_to_free = 0
    /\ pc = "allocate"
    /\ idx = 1
    /\ sweep = 0
    /\ opt = NoOpt
    /\ stack = <<>>
    /\ ret = NoRet
    /\ pre_opt = <<>>
    /\ previous_result = <<>>

Init == InitWith(ValidRequests)

\* The teacher allocation: the occupancy table is created empty and every pair
\* with sessions > 0 gets its teacher index.
Allocate ==
    /\ pc = "allocate"
    /\ teacher_assignments_global' = [s \in Subjects |-> [slot \in Slots |-> EmptyMap]]
    /\ class_subject_teacher' = AllocateTeachers(class_subject_data)
    /\ pc' = "first_pass"
    /\ UNCHANGED <<class_subject_data, class_timetables, failed_schedules, final_failures,
                   freed_slots, slots_to_free, idx, sweep, opt, stack, ret, pre_opt,
                   previous_result>>

MainFrame == <<class_subject_data, class_subject_teacher, freed_slots, slots_to_free,
               sweep, opt, previous_result>>

\* A first pass that calls backtrack_schedule with a small max_attempts.
FirstPassCallFewAttempts ==
    /\ pc = "first_pass"
    /\ stack = <<>>
    /\ ret.kind = "none"
    /\ idx <= Len(priority_order)
    /\ LET c == priority_order[idx][1]
           s == priority_order[idx][2]
       IN  CallBacktrack(class_timetables, teacher_assignments_global, c, s,
                         class_subject_data[c][s].sessions, 4, FALSE)
    /\ UNCHANGED <<class_timetables, teacher_assignments_global, failed_schedules,
                   final_failures, pc, idx, pre_opt>>
    /\ UNCHANGED MainFrame

\* First pass: the call of backtrack_schedule for the next pair of the priority order.
FirstPassCall ==
    /\ pc = "first_pass"
    /\ stack = <<>>
    /\ ret.kind = "none"
    /\ idx <= Len(priority_order)
    /\ LET c == priority_order[idx][1]
           s == priority_order[idx][2]
       IN  CallBacktrack(class_timetables, teacher_assignments_global, c, s,
                         class_subject_data[c][s].sessions, 200, FALSE)
    /\ UNCHANGED <<class_timetables, teacher_assignments_global, failed_schedules,
                   final_failures, pc, idx, pre_opt>>
    /\ UNCHANGED MainFrame

\* First pass: the call returned; a failure is kept for the retry.
FirstPassReturn ==
    /\ pc = "first_pass"
    /\ stack = <<>>
    /\ ret.kind # "none"
    /\ failed_schedules' =
          IF ret.kind = "false"
          THEN Append(failed_schedules, <<ret.class_name, ret.subject,
                                          class_subject_data[ret.class_name][ret.subject].sessions>>)
          ELSE failed_schedules
    /\ idx' = idx + 1
    /\ ret' = NoRet
    /\ UNCHANGED <<class_timetables, teacher_assignments_global, final_failures, pc, stack,
                   pre_opt>>
    /\ UNCHANGED MainFrame

\* The first pass is over: the optimizer phase begins.
FirstPassEnd ==
    /\ pc = "first_pass"
    /\ stack = <<>>
    /\ ret.kind = "none"
    /\ idx > Len(priority_order)
    /\ pc' = "optimize"
    /\ pre_opt' = class_timetables
    /\ idx' = 1
    /\ UNCHANGED <<class_timetables, teacher_assignments_global, failed_schedules,
                   final_failures, stack, ret>>
    /\ UNCHANGED MainFrame

\* The resolver is entered whether or not a pair failed.
AfterOptimizerAlways ==
    /\ pc = "optimized"
    /\ pc' = "make_space"
    /\ slots_to_free' = IF Len(failed_schedules) * 2 < 10
                        THEN Len(failed_schedules) * 2 ELSE 10
    /\ idx' = 1
    /\ UNCHANGED <<class_subject_data, class_timetables, teacher_assignments_global,
                   class_subject_teacher, failed_schedules, final_failures, freed_slots,
                   sweep, opt, stack, ret, pre_opt, previous_result>>

\* "if failed_schedules:" after the optimizer phase.
AfterOptimizer ==
    /\ pc = "optimized"
    /\ IF failed_schedules # <<>>
       THEN /\ pc' = "make_space"
            /\ slots_to_free' = IF Len(failed_schedules) * 2 < 10
                                THEN Len(failed_schedules) * 2 ELSE 10
       ELSE /\ pc' = "done"
            /\ UNCHANGED slots_to_free
    /\ idx' = 1
    /\ UNCHANGED <<class_subject_data, class_timetables, teacher_assignments_global,
                   class_subject_teacher, failed_schedules, final_failures, freed_slots,
                   sweep, opt, stack, ret, pre_opt, previous_result>>

\* An eviction that also takes a pair's last session.
EvictsLastSession(c, s, slot) ==
    /\ <<c, s>> \notin FailedMap
    /\ Cardinality(SubjectSlots(Timetable(c), s)) >= 1
    /\ slots_to_free > 0
    /\ slot \in DOMAIN Assignments(c)[s]

\* The iteration evicts: the pair did not fail, holds at least 2 sessions, the
\* budget is not spent and the chosen slot is in the class's assignments.
Evicts(c, s, slot) ==
    /\ <<c, s>> \notin FailedMap
    /\ Cardinality(SubjectSlots(Timetable(c), s)) > 1
    /\ slots_to_free > 0
    /\ slot \in DOMAIN Assignments(c)[s]

\* "continue" leaves the iteration before "if slots_to_free <= 0: break".
Continues(c, s) ==
    <<c, s>> \in FailedMap \/ Cardinality(SubjectSlots(Timetable(c), s)) <= 1

MakeSpaceFor(c, s, slot, teacher_id) ==
    IF Evicts(c, s, slot)
    THEN /\ class_timetables' = Evict(class_timetables, c, s, slot)
         /\ teacher_assignments_global' =
                EvictGlobal(teacher_assignments_global, s, slot, teacher_id)
         /\ freed_slots' = Append(freed_slots, <<c, s, slot>>)
         /\ slots_to_free' = slots_to_free - 1
         /\ idx' = IF slots_to_free - 1 <= 0 THEN Len(reverse_priority) + 1 ELSE idx + 1
    ELSE /\ UNCHANGED <<class_timetables, teacher_assignments_global, freed_slots,
                        slots_to_free>>
         /\ idx' = IF ~Continues(c, s) /\ slots_to_free <= 0
                   THEN Len(reverse_priority) + 1 ELSE idx + 1

\* One iteration of "for class_name, subject in reverse_priority".
MakeSpaceStep ==
    /\ pc = "make_space"
    /\ idx <= Len(reverse_priority)
    /\ MakeSpaceFor(reverse_priority[idx][1], reverse_priority[idx][2],
                    best_slot_to_remove(Timetable(reverse_priority[idx][1]),
                                        reverse_priority[idx][2]),
                    class_subject_teacher[reverse_priority[idx][1]][reverse_priority[idx][2]])
    /\ UNCHANGED <<class_subject_data, class_subject_teacher, failed_schedules, final_failures,
                   pc, sweep, opt, stack, ret, pre_opt, previous_result>>

\* make_space_for_failed_schedules returns: the retry pass begins.
MakeSpaceReturn ==
    /\ pc = "make_space"
    /\ idx > Len(reverse_priority)
    /\ pc' = "retry"
    /\ idx' = 1
    /\ UNCHANGED <<class_subject_data, class_timetables, teacher_assignments_global,
                   class_subject_teacher, failed_schedules, final_failures, freed_slots,
                   slots_to_free, sweep, opt, stack, ret, pre_opt, previous_result>>

PlacedSessions(ct, c, s) == Cardinality(SubjectSlots(ct[c].timetable, s))

\* Third pass: the next failed pair; backtrack_schedule is called in retry
\* mode when sessions remain.
RetryCall ==
    /\ pc = "retry"
    /\ stack = <<>>
    /\ ret.kind = "none"
    /\ idx <= Len(failed_schedules)
    /\ LET c == failed_schedules[idx][1]
           s == failed_schedules[idx][2]
           total_sessions == failed_schedules[idx][3]
           remaining_sessions == total_sessions - PlacedSessions(class_timetables, c, s)
       IN  IF remaining_sessions > 0
           THEN /\ CallBacktrack(class_timetables, teacher_assignments_global, c, s,
                                 remaining_sessions, 300, TRUE)
                /\ idx' = idx
           ELSE /\ idx' = idx + 1
                /\ UNCHANGED <<stack, ret>>
    /\ UNCHANGED <<class_timetables, teacher_assignments_global, failed_schedules,
                   final_failures, pc, pre_opt>>
    /\ UNCHANGED MainFrame

\* A retry pass that prints no "Final failure".
RetryReturnSilent ==
    /\ pc = "retry"
    /\ stack = <<>>
    /\ ret.kind # "none"
    /\ idx' = idx + 1
    /\ ret' = NoRet
    /\ UNCHANGED <<class_timetables, teacher_assignments_global, failed_schedules, pc, stack,
                   pre_opt, final_failures>>
    /\ UNCHANGED MainFrame

\* Third pass: the retry call returned; "Final failure" is printed on False.
RetryReturn ==
    /\ pc = "retry"
    /\ stack = <<>>
    /\ ret.kind # "none"
    /\ final_failures' = IF ret.kind = "false"
                         THEN final_failures \cup {<<ret.class_name, ret.subject>>}
                         ELSE final_failures
    /\ idx' = idx + 1
    /\ ret' = NoRet
    /\ UNCHANGED <<class_timetables, teacher_assignments_global, failed_schedules, pc, stack,
                   pre_opt>>
    /\ UNCHANGED MainFrame

\* "return class_timetables".
\* A run that goes back to the resolver while a pair is still unplaced.
RetryEndAgain ==
    /\ pc = "retry"
    /\ stack = <<>>
    /\ ret.kind = "none"
    /\ idx > Len(failed_schedules)
    /\ pc' = IF final_failures # {} THEN "make_space" ELSE "done"
    /\ UNCHANGED <<class_subject_data, class_timetables, teacher_assignments_global,
                   class_subject_teacher, failed_schedules, final_failures, freed_slots,
                   slots_to_free, idx, sweep, opt, stack, ret, pre_opt, previous_result>>

RetryEnd ==
    /\ pc = "retry"
    /\ stack = <<>>
    /\ ret.kind = "none"
    /\ idx > Len(failed_schedules)
    /\ pc' = "done"
    /\ UNCHANGED <<class_subject_data, class_timetables, teacher_assignments_global,
                   class_subject_teacher, failed_schedules, final_failures, freed_slots,
                   slots_to_free, idx, sweep, opt, stack, ret, pre_opt, previous_result>>

Next ==
    \/ Allocate
    \/ FirstPassCall
    \/ FirstPassReturn
    \/ FirstPassEnd
    \/ BtTry
    \/ BtFail
    \/ BtSucceed
    \/ BtBacktrack
    \/ OptCall
    \/ OptSession
    \/ OptReturn
    \/ AfterOptimizer
    \/ MakeSpaceStep
    \/ MakeSpaceReturn
    \/ RetryCall
    \/ RetryReturn
    \/ RetryEnd

Spec == Init /\ [][Next]_vars

\* Requests that are not valid input: a subject with more sessions than the
\* grid has slots, or with sessions > 0 and no teacher.
TooMany == DAYS * PERIODS + 1

\* The major subject has sessions and no teacher, in every class.
NoTeacherRequests ==
    {Request([c \in Classes |-> m], [c \in Classes |-> e], 0) :
        m \in 1..MaxSessions, e \in 0..MaxMinorSessions}

\* The first class asks for more sessions of the major subject than the grid
\* has slots, and for the minor subject; the other class asks for nothing.
OverfullRequests ==
    {Request([c \in Classes |-> IF c = ClassNames[1] THEN TooMany ELSE 0],
             [c \in Classes |-> IF c = ClassNames[1] THEN MaxMinorSessions ELSE 0],
             MaxTeachers)}

InvalidRequests == NoTeacherRequests \cup OverfullRequests

\* generate_schedule_for_classes called with a request that is not valid input.
SpecInvalid == InitWith(InvalidRequests) /\ [][Next]_vars

\* Requests of three classes in which every class declares its own teachers
\* value for every subject.
AllocatorRequests ==
    [{RosterNames[i] : i \in 1..Len(RosterNames)} ->
        [Subjects -> {Entry(n, t) : n \in 0..1, t \in 1..(MaxTeachers + 1)}]]

\* The teacher allocation and the priority order of these requests.
SpecAllocator == InitWith(AllocatorRequests) /\ [][Allocate]_vars

\* The caller invokes generate_schedule_for_classes once more with the same
\* class_subject_data and the same naming function; the function has no other
\* parameter.  The first result is kept for comparison.
CallAgain ==
    /\ pc = "done"
    /\ previous_result = <<>>
    /\ previous_result' = class_timetables
    /\ class_timetables' = InitialTimetables(class_subject_data)
    /\ teacher_assignments_global' = EmptyMap
    /\ class_subject_teacher' = EmptyMap
    /\ failed_schedules' = <<>>
    /\ final_failures' = {}
    /\ freed_slots' = <<>>
    /\ slots_to_free' = 0
    /\ pc' = "allocate"
    /\ idx' = 1
    /\ sweep' = 0
    /\ opt' = NoOpt
    /\ stack' = <<>>
    /\ ret' = NoRet
    /\ pre_opt' = <<>>
    /\ UNCHANGED class_subject_data

\* The requests of the repeated invocation: one class asks for the major and the
\* minor subject with one teacher each, the other class for nothing.
RepeatedRequests ==
    {Request([c \in Classes |-> IF c = ClassNames[1] THEN m ELSE 0],
             [c \in Classes |-> IF c = ClassNames[1] THEN MaxMinorSessions ELSE 0], 1) :
        m \in {1, MaxSessions}}

NextTwice ==
    \/ Next
    \/ CallAgain

\* Two invocations in a row on one request.
SpecTwice == InitWith(RepeatedRequests) /\ [][NextTwice]_vars

\* A bound on the loop that a caller of backtrack_schedule passes in place of
\* the default.
SmallAttempts == 4

\* Requests for one call of backtrack_schedule: class A asks for 1 to
\* DAYS x PERIODS sessions of the major subject, class B for none or one, one
\* teacher for both.
DirectRequests ==
    {Request([c \in Classes |-> IF c = ClassNames[1] THEN n ELSE b], [c \in Classes |-> 0], 1) :
        n \in 1..(DAYS * PERIODS), b \in 0..1}

\* The state at a first-pass call of backtrack_schedule for class A's major
\* subject: the teachers are allocated, class B's session (if it asked for one)
\* is in the first slot, and the call is entered with max_attempts at its
\* default or at SmallAttempts.
InitDirect ==
    /\ class_subject_data \in DirectRequests
    /\ class_subject_teacher = AllocateTeachers(class_subject_data)
    /\ LET b == ClassNames[2]
           s == SubjectNames[1]
           slot == SlotSeq[1]
           ct == InitialTimetables(class_subject_data)
           tag == [x \in Subjects |-> [y \in Slots |-> EmptyMap]]
       IN  IF class_subject_data[b][s].sessions > 0
           THEN /\ class_timetables =
                      PlaceSession(ct, b, s, slot,
                                   get_teacher_for_subject(b, s, slot[1], slot[2],
                                                           class_subject_teacher[b][s]))
                /\ teacher_assignments_global =
                      GlobalAdd(tag, s, slot, class_subject_teacher[b][s], b)
           ELSE /\ class_timetables = ct
                /\ teacher_assignments_global = tag
    /\ failed_schedules = <<>>
    /\ final_failures = {}
    /\ freed_slots = <<>>
    /\ slots_to_free = 0
    /\ pc = "first_pass"
    /\ idx = 1
    /\ sweep = 0
    /\ opt = NoOpt
    /\ \E max_attempts \in {SmallAttempts, 200} :
          stack = <<NewFrame(class_timetables, teacher_assignments_global, ClassNames[1],
                             SubjectNames[1],
                             class_subject_data[ClassNames[1]][SubjectNames[1]].sessions,
                             max_attempts, FALSE)>>
    /\ ret = NoRet
    /\ pre_opt = <<>>
    /\ previous_result = <<>>

\* The steps of backtrack_schedule.
NextBacktrack ==
    \/ BtTry
    \/ BtFail
    \/ BtSucceed
    \/ BtBacktrack

\* One call of backtrack_schedule in first-pass mode, to its return.
SpecDirect == InitDirect /\ [][NextBacktrack]_vars

\* ------------------------------------------------------------- properties
\* Every state of Spec is a call boundary of backtrack_schedule,
\* optimize_existing_timetable or make_space_for_failed_schedules, the end of
\* one iteration of their loops, or a result: a placement and the recursive call
\* after it, an undo, a relocation and an eviction are one step each.

Requested(c, s) == class_subject_data[c][s].sessions > 0

\* No two distinct classes hold a subject at one slot with one teacher index.
TeacherExclusive(ct) ==
    \A c1 \in Classes : \A c2 \in Classes \ {c1} : \A slot \in Slots : \A s \in Subjects :
        (ct[c1].timetable[slot] = s /\ ct[c2].timetable[slot] = s)
            => class_subject_teacher[c1][s] # class_subject_teacher[c2][s]

\* grid[d][p] = s iff the class's teacher_assignments[s] has the key (d, p).
GridMatchesAssignments(ct) ==
    \A c \in Classes : \A slot \in Slots : \A s \in Subjects :
        ct[c].timetable[slot] = s
            <=> (s \in DOMAIN ct[c].teacher_assignments
                 /\ slot \in DOMAIN ct[c].teacher_assignments[s])

\* C1: teacher exclusivity (P3).  In every state (every call boundary and
\* every result) no two distinct classes hold the same subject at the same slot
\* while assigned the same teacher index for it.
C1_TeacherExclusivity == TeacherExclusive(class_timetables)

\* Two classes that share one teacher for a subject both hold sessions of it in
\* a result.
C1_SharedTeacherPlaced ==
    /\ pc = "done"
    /\ \E s \in Subjects : \E c1 \in Classes : \E c2 \in Classes \ {c1} :
          /\ PlacedSessions(class_timetables, c1, s) > 0
          /\ PlacedSessions(class_timetables, c2, s) > 0
          /\ class_subject_teacher[c1][s] = class_subject_teacher[c2][s]

\* C3: assignment/grid consistency (P2).  In every state, for each class, slot
\* and subject, the grid holds the subject at the slot iff the class's
\* teacher_assignments of the subject has the slot as a key.
C3_GridAssignmentConsistency == GridMatchesAssignments(class_timetables)

\* The solver placed, the optimizer relocated (a cell that was empty when its
\* phase began is filled before any retry) and the resolver evicted.
C3_AllWritersActed ==
    /\ pc = "make_space"
    /\ freed_slots # <<>>
    /\ \E c \in Classes : \E slot \in Slots :
          /\ pre_opt[c].timetable[slot] = None
          /\ Timetable(c)[slot] # None

\* C4: undo safety (P9).  Whenever a call of backtrack_schedule returned False,
\* in the first pass or in retry mode, every class grid, every class's
\* teacher_assignments and the whole occupancy table equal their values at the
\* moment the call was entered.
C4_UndoSafety ==
    ret.kind = "false" =>
        /\ class_timetables = ret.entry.ct
        /\ teacher_assignments_global = ret.entry.tag

\* An outermost retry call returned False after it undid a placement.
C4_FailedAfterUndo ==
    /\ ret.kind = "false"
    /\ ret.undone > 0
    /\ ret.is_retry
    /\ stack = <<>>

\* The occupancy entries of a subject that belong to other classes than c.
OthersEntries(tag, s, c) ==
    {<<slot, t, tag[s][slot][t]>> : <<slot, t>> \in
        {x \in Slots \X (0..(MaxTeachers + DAYS * PERIODS)) :
            x[2] \in DOMAIN tag[s][x[1]] /\ tag[s][x[1]][x[2]] # c}}

\* C5: a successful placement is exact and local.  Whenever a call
\* backtrack_schedule(class, subject, n) returned True, exactly n cells of the
\* class's grid that were empty at entry hold the subject, every other cell of
\* that grid is as at entry, and the grids, assignments and occupancy entries of
\* all other classes and all other subjects are as at entry.
C5_PlacementExactAndLocal ==
    ret.kind = "true" =>
        LET c == ret.class_name
            s == ret.subject
            before == ret.entry.ct
        IN  /\ Cardinality({slot \in Slots : /\ before[c].timetable[slot] = None
                                             /\ Timetable(c)[slot] = s}) = ret.sessions_left
            /\ \A slot \in Slots :
                  \/ Timetable(c)[slot] = before[c].timetable[slot]
                  \/ (before[c].timetable[slot] = None /\ Timetable(c)[slot] = s)
            /\ \A c2 \in Classes \ {c} : class_timetables[c2] = before[c2]
            /\ \A s2 \in (DOMAIN Assignments(c)) \ {s} :
                  Assignments(c)[s2] = before[c].teacher_assignments[s2]
            /\ \A s2 \in Subjects \ {s} :
                  teacher_assignments_global[s2] = ret.entry.tag[s2]
            /\ OthersEntries(teacher_assignments_global, s, c) = OthersEntries(ret.entry.tag, s, c)

\* An outermost call for 2 or more sessions returned True while the class held
\* another subject and another class held sessions.
C5_PlacedBesideOthers ==
    /\ ret.kind = "true"
    /\ stack = <<>>
    /\ ret.sessions_left >= 2
    /\ \E slot \in Slots : ret.entry.ct[ret.class_name].timetable[slot] # None
    /\ \E c2 \in Classes \ {ret.class_name} : \E slot \in Slots : Timetable(c2)[slot] # None

\* C6: session count upper bound (P4).  In every result, for each class and
\* subject, the number of cells holding the subject is at most the sessions the
\* request asks for, the retry pass included.
C6_SessionUpperBound ==
    pc = "done" =>
        \A c \in Classes : \A s \in Subjects :
            PlacedSessions(class_timetables, c, s) <= class_subject_data[c][s].sessions

\* A result in which the retry pass placed every session of a pair that failed
\* the first pass.
C6_RetryFilledPair ==
    /\ pc = "done"
    /\ \E i \in 1..Len(failed_schedules) :
          /\ failed_schedules[i][3] > 0
          /\ PlacedSessions(class_timetables, failed_schedules[i][1], failed_schedules[i][2])
                = failed_schedules[i][3]

\* D(subject) in fifths, in exact arithmetic: a day with n > 0 sessions of the
\* subject adds 1 - 0.2 (n - 1).
D5(timetable, subject) ==
    LET RECURSIVE Sum(_)
        Sum(d) == IF d = DAYS THEN 0
                  ELSE (IF DayCount(timetable, subject, d) > 0
                        THEN 6 - DayCount(timetable, subject, d) ELSE 0) + Sum(d + 1)
    IN  Sum(0)

\* a >= b for two scores as the program computes them.
ScoreAtLeast(a, b) == a[1] > b[1] \/ (a[1] = b[1] /\ a[2] >= b[2])

\* C8: distribution monotone under the optimizer (P8).  For every class and
\* subject, D(subject) of the class grid after the whole optimizer phase (up to
\* 3 calls of optimize_existing_timetable) is greater than or equal to
\* D(subject) immediately before the phase, both as the program computes the
\* score and in exact arithmetic.
C8_OptimizerMonotone ==
    pc = "optimized" =>
        \A c \in Classes : \A s \in Subjects :
            /\ D5(Timetable(c), s) >= D5(pre_opt[c].timetable, s)
            /\ ScoreAtLeast(calculate_distribution_score(Timetable(c), s),
                            calculate_distribution_score(pre_opt[c].timetable, s))

\* The phase made more than one call and left a grid that differs from the one
\* it found.
C8_PhaseRelocated ==
    /\ pc = "optimized"
    /\ sweep >= 2
    /\ class_timetables # pre_opt

\* Every label of a pair carries the pair's teacher index.
LabelsFromOneTeacher ==
    \A c \in Classes : \A s \in DOMAIN Assignments(c) : \A slot \in DOMAIN Assignments(c)[s] :
        Assignments(c)[s][slot][5] = class_subject_teacher[c][s]

\* Every occupancy entry of a class is under the pair's teacher index.
OccupancyFromOneTeacher ==
    \A s \in DOMAIN teacher_assignments_global : \A slot \in Slots :
        \A t \in DOMAIN teacher_assignments_global[s][slot] :
            class_subject_teacher[teacher_assignments_global[s][slot][t]][s] = t

\* C9: stable teacher per (class, subject) (P6).  The teacher index of a pair is
\* fixed before the first placement (while it is not fixed every grid is
\* empty), it never changes afterwards, and every label and every occupancy
\* entry of the pair carries this index in every state.
C9_StableTeacher ==
    /\ [](pc = "allocate" => class_timetables = InitialTimetables(class_subject_data))
    /\ [][pc # "allocate" => class_subject_teacher' = class_subject_teacher]_vars
    /\ [](LabelsFromOneTeacher /\ OccupancyFromOneTeacher)

\* A result in which two classes hold a subject under different teacher indices,
\* one session carries the label of the slot it was relocated from, and a
\* session was evicted.
C9_TwoTeachersAfterAllPhases ==
    /\ pc = "done"
    /\ freed_slots # <<>>
    /\ \E s \in Subjects : \E c1 \in Classes : \E c2 \in Classes \ {c1} :
          /\ PlacedSessions(class_timetables, c1, s) > 0
          /\ PlacedSessions(class_timetables, c2, s) > 0
          /\ class_subject_teacher[c1][s] # class_subject_teacher[c2][s]
    /\ \E c \in Classes : \E s \in DOMAIN Assignments(c) : \E slot \in DOMAIN Assignments(c)[s] :
          <<Assignments(c)[s][slot][3], Assignments(c)[s][slot][4]>> # slot

\* The keys the next "del" statement deletes are present: the undo of
\* backtrack_schedule and the relocation of the optimizer raise KeyError otherwise.
DeletedKeysPresent ==
    /\ (stack # <<>> /\ ret.kind = "false") =>
          /\ Top.slot \in DOMAIN Assignments(Top.class_name)[Top.subject]
          /\ Top.teacher_id \in DOMAIN teacher_assignments_global[Top.subject][Top.slot]
    /\ (pc = "optimizing" /\ opt.slots # <<>>) =>
          /\ Head(opt.slots) \in DOMAIN Assignments(opt.class_name)[opt.subject]
          /\ class_subject_teacher[opt.class_name][opt.subject]
                \in DOMAIN teacher_assignments_global[opt.subject][Head(opt.slots)]

\* C10: infeasible schedules are non-fatal and stay valid.  No "del" statement
\* raises (the key it deletes is present); the result holds a grid and
\* assignments for every class of the request, every pair that failed the first
\* pass and is not fully placed after the retry pass is reported as a final
\* failure, and the result satisfies grid/assignment consistency and teacher
\* exclusivity.
C10_InfeasibleNonFatal ==
    /\ DeletedKeysPresent
    /\ pc = "done" =>
          /\ DOMAIN class_timetables = Classes
          /\ \A i \in 1..Len(failed_schedules) :
                PlacedSessions(class_timetables, failed_schedules[i][1], failed_schedules[i][2])
                      < failed_schedules[i][3]
                  => <<failed_schedules[i][1], failed_schedules[i][2]>> \in final_failures
          /\ GridMatchesAssignments(class_timetables)
          /\ TeacherExclusive(class_timetables)

\* A result with a final failure beside sessions that were placed.
C10_PartialResult ==
    /\ pc = "done"
    /\ final_failures # {}
    /\ \E c \in Classes : \E slot \in Slots : Timetable(c)[slot] # None

\* C2: full placement unless warned (P5), including after eviction.  In the
\* result every pair with sessions > 0 that is not reported as a final failure
\* holds exactly the requested number of cells.
C2_FullPlacementUnlessWarned ==
    pc = "done" =>
        \A c \in Classes : \A s \in Subjects :
            (Requested(c, s) /\ <<c, s>> \notin final_failures)
                => PlacedSessions(class_timetables, c, s) = class_subject_data[c][s].sessions

\* A result in which a pair the resolver evicted a session from holds fewer
\* cells than requested and is not reported.
C2_SilentLoss ==
    /\ pc = "done"
    /\ \E i \in 1..Len(freed_slots) :
          /\ PlacedSessions(class_timetables, freed_slots[i][1], freed_slots[i][2])
                < class_subject_data[freed_slots[i][1]][freed_slots[i][2]].sessions
          /\ <<freed_slots[i][1], freed_slots[i][2]>> \notin final_failures

\* No cell, no class's entry and no occupancy entry was written.
NothingWritten ==
    /\ class_timetables = InitialTimetables(class_subject_data)
    /\ \A s \in DOMAIN teacher_assignments_global : \A slot \in Slots :
          teacher_assignments_global[s][slot] = EmptyMap

\* C7: input rejection (InvalidInput, S3).  For a request in which some subject
\* has sessions > DAYS x PERIODS, or teachers = 0 with sessions > 0, no grid
\* cell, assignment entry or occupancy entry is ever written.
C7_InvalidInputRejected == ~ValidInput(class_subject_data) => NothingWritten

\* A result for a request that is not valid input, with sessions placed.
C7_InvalidInputScheduled ==
    /\ ~ValidInput(class_subject_data)
    /\ pc = "done"
    /\ ~NothingWritten

\* C11: determinism (P7).  Two invocations with identical request and naming
\* function return identical grids and assignments for every class; the seed
\* the claim speaks of is no parameter of generate_schedule_for_classes, so the
\* arguments of the two invocations are all there is to hold identical.
C11_Determinism ==
    (pc = "done" /\ previous_result # <<>>) => class_timetables = previous_result

\* The second invocation returned a result that differs from the first one.
C11_ResultsDiffer ==
    /\ pc = "done"
    /\ previous_result # <<>>
    /\ class_timetables # previous_result

\* The classes of the request that ask for the subject.
Requesting(s) == {c \in DOMAIN class_subject_data : Requested(c, s)}

\* The number of classes the allocation gave teacher index t of subject s.
Load(s, t) ==
    Cardinality({c \in Requesting(s) : class_subject_teacher[c][s] = t})

\* The subject's pool: the indices below the largest teachers value declared by
\* a requesting class; and the indices below every such value.
Pool(s) ==
    {t \in 0..(MaxTeachers + 1) : \E c \in Requesting(s) : t < class_subject_data[c][s].teachers}
CommonPool(s) ==
    {t \in Pool(s) : \A c \in Requesting(s) : t < class_subject_data[c][s].teachers}

\* C12 as stated: allocator load balance.  After the allocation, for every
\* subject, the loads of any two teacher indices of the subject's pool differ
\* by at most one, also when the classes declare different teachers values.
C12_LoadBalance ==
    pc # "allocate" =>
        \A s \in Subjects : \A t1 \in Pool(s) : \A t2 \in Pool(s) :
            Load(s, t1) - Load(s, t2) <= 1

\* C12 as amended: after the allocation, for every subject, the loads of any
\* two teacher indices that every requesting class may use (the indices below
\* the smallest teachers value declared for the subject) differ by at most
\* one.  When the classes declare one teachers value these are the whole pool.
C12_LoadBalanceCommonPool ==
    pc # "allocate" =>
        \A s \in Subjects : \A t1 \in CommonPool(s) : \A t2 \in CommonPool(s) :
            Load(s, t1) - Load(s, t2) <= 1

\* Three classes that declare different teachers values for a subject were
\* allocated, and two or more indices are open to all of them.
C12_MixedPoolAllocated ==
    /\ pc = "first_pass"
    /\ \E s \in Subjects :
          /\ Cardinality(Requesting(s)) = 3
          /\ Pool(s) # CommonPool(s)
          /\ Cardinality(CommonPool(s)) >= 2
          /\ \E t1 \in CommonPool(s) : \E t2 \in CommonPool(s) : Load(s, t1) # Load(s, t2)

\* The position of a class in the order of the request.
Position(c) == CHOOSE i \in 1..Len(RosterNames) : RosterNames[i] = c

\* The number of classes before c in request order that were given index t.
UsedBefore(s, c, t) ==
    Cardinality({c2 \in Requesting(s) :
                    Position(c2) < Position(c) /\ class_subject_teacher[c2][s] = t})

\* C13: allocator choice.  After the allocation exactly the pairs with
\* sessions > 0 have a teacher index; taking the classes in request order, the
\* index of a class is below the class's own teachers value, no index below
\* that value had been used less often by the classes before it, and none used
\* equally often is lower.  Three requesting classes with teachers = 2 receive
\* the indices 0, 1, 0.
C13_AllocatorChoice ==
    pc # "allocate" =>
        /\ \A c \in DOMAIN class_subject_data : \A s \in Subjects :
              Requested(c, s) <=> (c \in DOMAIN class_subject_teacher
                                   /\ s \in DOMAIN class_subject_teacher[c])
        /\ \A s \in Subjects : \A c \in Requesting(s) :
              /\ class_subject_teacher[c][s] \in 0..(class_subject_data[c][s].teachers - 1)
              /\ \A u \in 0..(class_subject_data[c][s].teachers - 1) :
                    \/ UsedBefore(s, c, class_subject_teacher[c][s]) < UsedBefore(s, c, u)
                    \/ /\ UsedBefore(s, c, class_subject_teacher[c][s]) = UsedBefore(s, c, u)
                       /\ class_subject_teacher[c][s] <= u
        /\ \A s \in Subjects :
              (/\ Cardinality(Requesting(s)) = 3
               /\ \A c \in Requesting(s) : class_subject_data[c][s].teachers = 2)
                  => /\ class_subject_teacher[RosterNames[1]][s] = 0
                     /\ class_subject_teacher[RosterNames[2]][s] = 1
                     /\ class_subject_teacher[RosterNames[3]][s] = 0

\* Three classes that ask for a subject with teachers = 2 were allocated.
C13_ThreeClassesTwoTeachers ==
    /\ pc = "first_pass"
    /\ \E s \in Subjects :
          /\ Cardinality(Requesting(s)) = 3
          /\ \A c \in Requesting(s) : class_subject_data[c][s].teachers = 2

\* The pairs of the request with sessions > 0.
RequestedPairs == {x \in (DOMAIN class_subject_data) \X Subjects : Requested(x[1], x[2])}

\* The total sessions a class asks for.
SessionsOf(c) ==
    class_subject_data[c][SubjectNames[1]].sessions + class_subject_data[c][SubjectNames[2]].sessions

\* Pair x is scheduled before pair y: fewer teachers; then more sessions; then
\* more sessions of the whole class; then the lower (class name, subject name).
Before(x, y) ==
    LET dx == class_subject_data[x[1]][x[2]]
        dy == class_subject_data[y[1]][y[2]]
    IN  \/ dx.teachers < dy.teachers
        \/ /\ dx.teachers = dy.teachers
           /\ \/ dx.sessions > dy.sessions
              \/ /\ dx.sessions = dy.sessions
                 /\ \/ SessionsOf(x[1]) > SessionsOf(y[1])
                    \/ /\ SessionsOf(x[1]) = SessionsOf(y[1])
                       /\ \/ NameRank(x[1]) < NameRank(y[1])
                          \/ (x[1] = y[1] /\ NameRank(x[2]) < NameRank(y[2]))

\* The list holds every requested pair once, and no other pair, in the order
\* of Before.
OrderedOnce(order) ==
    /\ Len(order) = Cardinality(RequestedPairs)
    /\ {order[i] : i \in 1..Len(order)} = RequestedPairs
    /\ \A i \in 1..Len(order) : \A j \in (i + 1)..Len(order) : Before(order[i], order[j])

\* C14: priority order.  get_priority_order returns every pair with
\* sessions > 0 exactly once and no pair with sessions = 0, sorted by ascending
\* teachers, then descending sessions, then descending total sessions of the
\* class, then (class name, subject name), whenever the first pass or the
\* resolver is about to use it; the k-th call of backtrack_schedule in the first
\* pass is for the pair with exactly k - 1 pairs before it, and the first pass
\* ends when every pair has had its call.
C14_PriorityOrder ==
    /\ []((stack = <<>> /\ pc \in {"first_pass", "make_space"})
            => OrderedOnce(get_priority_order(class_subject_data)))
    /\ [][(pc = "first_pass" /\ stack = <<>> /\ stack' # <<>>)
            => Cardinality({x \in RequestedPairs :
                               Before(x, <<stack'[1].class_name, stack'[1].subject>>)}) = idx - 1]_vars
    /\ [][(pc = "first_pass" /\ pc' # "first_pass")
            => idx = Cardinality(RequestedPairs) + 1]_vars

\* The first pass is over for a request of four pairs, two of which differ in
\* teachers and two of which agree in everything but the name.
C14_FourPairsScheduled ==
    /\ pc = "optimize"
    /\ Cardinality(RequestedPairs) = 4
    /\ \E x \in RequestedPairs : \E y \in RequestedPairs :
          class_subject_data[x[1]][x[2]].teachers # class_subject_data[y[1]][y[2]].teachers
    /\ \E x \in RequestedPairs : \E y \in RequestedPairs \ {x} :
          /\ class_subject_data[x[1]][x[2]] = class_subject_data[y[1]][y[2]]
          /\ SessionsOf(x[1]) = SessionsOf(y[1])

\* The request asks for one pair only, with at most DAYS sessions and one teacher.
LoneSubject(c, s) ==
    /\ RequestedPairs = {<<c, s>>}
    /\ class_subject_data[c][s].sessions <= DAYS
    /\ class_subject_data[c][s].teachers = 1

\* C15: perfect spread for a lone subject (S1).  When one class asks for one
\* subject with n <= DAYS sessions and one teacher and nothing else is asked
\* for, the result holds exactly n cells of the subject in that class, no two
\* of them on one day, and no other cell is filled, whatever the jitter.
C15_LoneSubjectSpread ==
    pc = "done" =>
        \A c \in Classes : \A s \in Subjects :
            LoneSubject(c, s) =>
                /\ PlacedSessions(class_timetables, c, s) = class_subject_data[c][s].sessions
                /\ \A d \in DayRange : DayCount(Timetable(c), s, d) <= 1
                /\ \A c2 \in Classes : \A slot \in Slots :
                      Timetable(c2)[slot] # None => (c2 = c /\ Timetable(c2)[slot] = s)

\* The result of a lone subject with DAYS sessions: every day holds one.
C15_OnePerDay ==
    /\ pc = "done"
    /\ \E c \in Classes : \E s \in Subjects :
          /\ LoneSubject(c, s)
          /\ class_subject_data[c][s].sessions = DAYS
          /\ \A d \in DayRange : DayCount(Timetable(c), s, d) = 1

\* Both classes ask for the major subject alone, with one teacher and the same
\* number of sessions, and the two together fit the grid.
TeacherScarce ==
    /\ RequestedPairs = Classes \X {SubjectNames[1]}
    /\ \A c \in Classes :
          /\ class_subject_data[c][SubjectNames[1]].teachers = 1
          /\ class_subject_data[c][SubjectNames[1]].sessions
                = class_subject_data[ClassNames[1]][SubjectNames[1]].sessions
    /\ 2 * class_subject_data[ClassNames[1]][SubjectNames[1]].sessions <= DAYS * PERIODS

\* C16: teacher-scarce sharing (S2).  When two classes each ask for one subject
\* with one teacher and the same number of sessions, the sum being at most
\* DAYS x PERIODS, the result holds every requested session in both classes, no
\* pair was reported as failed in the first pass or in the retry pass, and no
\* slot holds the subject in both classes.
C16_TeacherScarceSharing ==
    (pc = "done" /\ TeacherScarce) =>
        /\ \A c \in Classes :
              PlacedSessions(class_timetables, c, SubjectNames[1])
                  = class_subject_data[c][SubjectNames[1]].sessions
        /\ failed_schedules = <<>>
        /\ final_failures = {}
        /\ \A slot \in Slots :
              ~(\A c \in Classes : Timetable(c)[slot] = SubjectNames[1])

\* The result of two classes that share one teacher for sessions that fill
\* every slot of the week between them.
C16_WeekShared ==
    /\ pc = "done"
    /\ TeacherScarce
    /\ 2 * class_subject_data[ClassNames[1]][SubjectNames[1]].sessions = DAYS * PERIODS
    /\ \A slot \in Slots : \E c \in Classes : Timetable(c)[slot] = SubjectNames[1]

\* The retry scenario: both classes ask for the major subject with the same
\* number of sessions and for one session of the minor subject, one teacher
\* each, and the sessions of the major subject fit the one teacher's week.
RetryScenario ==
    /\ RequestedPairs = Classes \X Subjects
    /\ \A c \in Classes :
          /\ class_subject_data[c][SubjectNames[1]].teachers = 1
          /\ class_subject_data[c][SubjectNames[2]] = Entry(1, 1)
          /\ class_subject_data[c][SubjectNames[1]].sessions
                = class_subject_data[ClassNames[1]][SubjectNames[1]].sessions
    /\ 2 * class_subject_data[ClassNames[1]][SubjectNames[1]].sessions <= DAYS * PERIODS

\* C18: retry scenario (S6).  When classes A and B each ask for the major
\* subject with the same number of sessions and one teacher (6 on the 5 x 7
\* grid, DAYS + 1 among others here) and for one session of the minor subject
\* with one teacher, the result holds every requested session, no pair is
\* reported as a final failure, and every pair the resolver evicted a session
\* from holds all its sessions again.
C18_RetryScenario ==
    (pc = "done" /\ RetryScenario) =>
        /\ \A x \in RequestedPairs :
              PlacedSessions(class_timetables, x[1], x[2]) = class_subject_data[x[1]][x[2]].sessions
        /\ final_failures = {}
        /\ \A i \in 1..Len(freed_slots) :
              PlacedSessions(class_timetables, freed_slots[i][1], freed_slots[i][2])
                  = class_subject_data[freed_slots[i][1]][freed_slots[i][2]].sessions

\* The result of the scenario with DAYS + 1 sessions of the major subject in
\* each class.
C18_ScenarioScheduled ==
    /\ pc = "done"
    /\ RetryScenario
    /\ class_subject_data[ClassNames[1]][SubjectNames[1]].sessions = DAYS + 1
    /\ \A c \in Classes : PlacedSessions(class_timetables, c, SubjectNames[1]) = DAYS + 1

\* The occupancy table says that teacher t of subject s is with class c at slot.
Tagged(s, slot, t, c) ==
    /\ t \in DOMAIN teacher_assignments_global[s][slot]
    /\ teacher_assignments_global[s][slot][t] = c

\* Class c's grid holds s at slot and t is the teacher index assigned to (c, s).
Holds(s, slot, t, c) ==
    /\ Timetable(c)[slot] = s
    /\ class_subject_teacher[c][s] = t

\* C19: occupancy table consistency.  Once the tables are set up, between any
\* two steps of the run and in the final state, the occupancy table has the
\* entry (s, slot, t) -> c exactly when class c's grid holds s at slot and c's
\* assigned teacher for s is t: an undo, a relocation and an eviction leave no
\* stale entry.
C19_OccupancyConsistent ==
    pc # "allocate" =>
        \A s \in Subjects, slot \in Slots, t \in 0..MaxTeachers, c \in Classes :
            Tagged(s, slot, t, c) <=> Holds(s, slot, t, c)

\* A finished run in which the optimizer relocated a session and the resolver
\* evicted one, with sessions left in the table.
C19_AfterRelocationAndEviction ==
    /\ pc = "done"
    /\ sweep >= 2
    /\ freed_slots # <<>>
    /\ \E s \in Subjects, slot \in Slots, t \in 0..MaxTeachers, c \in Classes :
          Tagged(s, slot, t, c)

\* C20: each optimizer relocation is a strict improvement.  Whenever an
\* iteration of optimize_existing_timetable moves a session of subject s in
\* class c, the distribution score of s on c's grid right after the move is
\* strictly greater than the score right before the session was taken out,
\* for the first and for every later session of the subject in the call.
C20_StrictImprovement ==
    [][(pc = "optimizing" /\ opt.slots # <<>> /\ class_timetables' # class_timetables) =>
          FLess(calculate_distribution_score(Timetable(opt.class_name), opt.subject),
                calculate_distribution_score(class_timetables'[opt.class_name].timetable,
                                             opt.subject))]_vars

\* Class c's grid changes by the move of one session of some subject from
\* old_slot into a cell that was empty and free of the class's teacher.
OneRelocation(c) ==
    \E old_slot \in Slots, new_slot \in Slots :
        LET s == Timetable(c)[old_slot]
        IN  /\ s # None
            /\ old_slot # new_slot
            /\ Timetable(c)[new_slot] = None
            /\ is_teacher_available(teacher_assignments_global, s, new_slot,
                                    class_subject_teacher[c][s])
            /\ class_timetables'[c].timetable =
                  [Timetable(c) EXCEPT ![old_slot] = None, ![new_slot] = s]

\* C21: the optimizer only relocates.  Every iteration of
\* optimize_existing_timetable leaves each class's grid as it is or moves one
\* session into a cell that was empty and where the class's assigned teacher
\* was not recorded for the subject; the number of cells of every
\* (class, subject) pair stays the same, and so every cell of another subject
\* and every session that is not moved.
C21_OnlyRelocates ==
    [][(pc = "optimize" \/ pc = "optimizing") =>
          ((\A c \in Classes :
                (class_timetables'[c].timetable = Timetable(c)) \/ OneRelocation(c))
           /\ (\A c \in Classes, s \in Subjects :
                PlacedSessions(class_timetables', c, s)
                    = PlacedSessions(class_timetables, c, s)))]_vars

\* A call of the optimizer in which a session has been relocated while another
\* subject holds cells of the same class.
C21_RelocatedBesideOther ==
    /\ pc = "optimizing"
    /\ opt.made_improvements
    /\ \E c \in Classes : \A s \in Subjects : PlacedSessions(class_timetables, c, s) > 0

\* The pairs the resolver has evicted a session from.
FreedPairs == {<<freed_slots[i][1], freed_slots[i][2]>> : i \in 1..Len(freed_slots)}

\* The budget of the resolver: min(2 x |failed|, 10).
EvictionLimit == IF 2 * Len(failed_schedules) < 10 THEN 2 * Len(failed_schedules) ELSE 10

\* The step evicts one session of the pair x: x did not fail, was not evicted
\* from before and holds at least 2 sessions, of which one goes.
EvictsOneOf(x) ==
    /\ x \notin FailedMap
    /\ x \notin FreedPairs
    /\ PlacedSessions(class_timetables, x[1], x[2]) >= 2
    /\ PlacedSessions(class_timetables', x[1], x[2])
          = PlacedSessions(class_timetables, x[1], x[2]) - 1
    /\ Len(freed_slots') = Len(freed_slots) + 1
    /\ <<freed_slots'[Len(freed_slots')][1], freed_slots'[Len(freed_slots')][2]>> = x
    /\ \A y \in (Classes \X Subjects) \ {x} :
          PlacedSessions(class_timetables', y[1], y[2]) = PlacedSessions(class_timetables, y[1], y[2])

\* C22: eviction limits.  make_space_for_failed_schedules evicts at most
\* min(2 x |failed|, 10) sessions in total and at most one per (class, subject)
\* pair; each eviction takes one session from a pair that is not on the failed
\* list and holds at least 2 sessions, so the pair ends exactly one cell lower
\* and keeps at least one session; an iteration without eviction changes no
\* grid.
C22_EvictionLimits ==
    /\ [](/\ Len(freed_slots) <= EvictionLimit
          /\ Cardinality(FreedPairs) = Len(freed_slots)
          /\ pc = "make_space" =>
                \A x \in FreedPairs : /\ x \notin FailedMap
                                       /\ PlacedSessions(class_timetables, x[1], x[2]) >= 1)
    /\ [][(pc = "make_space") =>
             ((class_timetables' = class_timetables /\ freed_slots' = freed_slots)
              \/ (\E x \in Classes \X Subjects : EvictsOneOf(x)))]_vars

\* The resolver returned with its budget of 2 spent while a third pair that
\* did not fail still holds 2 sessions.
C22_BudgetSpent ==
    /\ pc = "retry"
    /\ idx = 1
    /\ Len(freed_slots) = 2
    /\ EvictionLimit = 2
    /\ \E x \in RequestedPairs :
          /\ x \notin FailedMap \cup FreedPairs
          /\ PlacedSessions(class_timetables, x[1], x[2]) >= 2

\* Slot x comes before slot y in day-major, period-minor order.
SlotBefore(x, y) == x[1] < y[1] \/ (x[1] = y[1] /\ x[2] < y[2])

\* The score of the subject on the grid without the session at slot.
ScoreWithout(timetable, subject, slot) ==
    calculate_distribution_score([timetable EXCEPT ![slot] = None], subject)

\* The sessions pair x held when the resolver began.
HeldBeforeResolver(x) ==
    PlacedSessions(class_timetables, x[1], x[2]) + (IF x \in FreedPairs THEN 1 ELSE 0)

\* The step evicts the session of (c, s) at slot: no other session of the
\* subject leaves a higher score, none before it leaves the same score, and
\* the cell, the class's entry and the occupancy entry are gone together.
EvictsBest(c, s, slot) ==
    /\ Timetable(c)[slot] = s
    /\ \A y \in SubjectSlots(Timetable(c), s) \ {slot} :
          /\ ~FLess(ScoreWithout(Timetable(c), s, slot), ScoreWithout(Timetable(c), s, y))
          /\ SlotBefore(y, slot) =>
                FLess(ScoreWithout(Timetable(c), s, y), ScoreWithout(Timetable(c), s, slot))
    /\ class_timetables'[c].timetable = [Timetable(c) EXCEPT ![slot] = None]
    /\ slot \notin DOMAIN class_timetables'[c].teacher_assignments[s]
    /\ class_subject_teacher[c][s] \notin DOMAIN teacher_assignments_global'[s][slot]

\* C23: eviction choice.  The resolver evicts in the reverse of the priority
\* order: when it returns, the evicted-from pairs are the first pairs of that
\* reverse order that did not fail and held at least 2 sessions, up to the
\* budget.  From each it evicts the session whose removal leaves the highest
\* distribution score of the subject (the first in day-major, period-minor
\* order on ties), clearing the grid cell, the class's assignment entry and
\* the occupancy entry together.
C23_EvictionChoice ==
    /\ []((pc = "retry" /\ idx = 1 /\ stack = <<>> /\ ret.kind = "none") =>
            /\ \A i \in 1..Len(freed_slots) : \A j \in (i + 1)..Len(freed_slots) :
                  Before(<<freed_slots[j][1], freed_slots[j][2]>>,
                         <<freed_slots[i][1], freed_slots[i][2]>>)
            /\ \A y \in RequestedPairs \ (FailedMap \cup FreedPairs) :
                  HeldBeforeResolver(y) >= 2 =>
                      /\ Len(freed_slots) = EvictionLimit
                      /\ \A x \in FreedPairs : Before(y, x))
    /\ [][(pc = "make_space" /\ freed_slots' # freed_slots) =>
             EvictsBest(freed_slots'[Len(freed_slots')][1], freed_slots'[Len(freed_slots')][2],
                        freed_slots'[Len(freed_slots')][3])]_vars

\* The resolver evicted a session that was not the subject's first one.
C23_LaterSessionEvicted ==
    /\ pc = "retry"
    /\ idx = 1
    /\ stack = <<>>
    /\ \E i \in 1..Len(freed_slots) :
          \E y \in SubjectSlots(Timetable(freed_slots[i][1]), freed_slots[i][2]) :
              SlotBefore(y, freed_slots[i][3])

\* The phases in their order: allocation, first pass, optimizer, eviction,
\* retry, return.
PhaseRank(p) ==
    CASE p = "allocate" -> 1
      [] p = "first_pass" -> 2
      [] p \in {"optimize", "optimizing", "optimized"} -> 3
      [] p = "make_space" -> 4
      [] p = "retry" -> 5
      [] p = "done" -> 6

\* C24: phase ordering.  The phases of a run follow one another in the order
\* allocation, first pass (left only after its last pair), optimizer,
\* eviction, retry; eviction and retry are entered only when a pair failed in
\* the first pass and otherwise the run returns the tables the optimizer left;
\* nothing is evicted before the resolver or once the retry pass has begun, so
\* the optimizer never runs after an eviction.
C24_PhaseOrdering ==
    /\ []((pc \in {"make_space", "retry"} => failed_schedules # <<>>)
          /\ (freed_slots # <<>> => pc \in {"make_space", "retry", "done"}))
    /\ [][/\ PhaseRank(pc') >= PhaseRank(pc)
          /\ (PhaseRank(pc') > PhaseRank(pc) + 1 =>
                 (pc = "optimized" /\ pc' = "done" /\ failed_schedules = <<>>
                  /\ class_timetables' = class_timetables
                  /\ teacher_assignments_global' = teacher_assignments_global))
          /\ ((pc = "first_pass" /\ pc' # pc) => idx > Cardinality(RequestedPairs))
          /\ ((pc = "optimized" /\ pc' = "make_space") => failed_schedules # <<>>)
          /\ (pc # "make_space" => freed_slots' = freed_slots)]_vars

\* A run that went through every phase and whose retry pass placed what had
\* failed.
C24_AllPhasesPassed ==
    /\ pc = "done"
    /\ pre_opt # <<>>
    /\ failed_schedules # <<>>
    /\ freed_slots # <<>>
    /\ final_failures = {}

\* The slots that were empty in c's grid and free of teacher t for subject s
\* in the tables of a snapshot.
FreeAt(snapshot, c, s, t) ==
    {slot \in Slots : /\ snapshot.ct[c].timetable[slot] = None
                      /\ is_teacher_available(snapshot.tag, s, slot, t)}

\* The step is an iteration of a retry call's loop on slot.
RetryIteration(slot) ==
    /\ stack # <<>>
    /\ ret.kind = "none"
    /\ Top.is_retry
    /\ slot \notin Top.tried
    /\ Len(stack') >= Len(stack)
    /\ stack'[Len(stack)].tried = Top.tried \cup {slot}

\* C25: retry mode is complete.  A call of backtrack_schedule in retry mode
\* for n sessions returns True exactly when, at its entry, at least n slots
\* were empty in the class's grid and free of the class's assigned teacher in
\* the subject's occupancy; and an iteration of a retry call on a slot that is
\* empty and teacher-free places the session there, whatever the distribution
\* score.
C25_RetryComplete ==
    /\ []((ret.kind # "none" /\ ret.is_retry) =>
            ((ret.kind = "true") <=>
               (Cardinality(FreeAt(ret.entry, ret.class_name, ret.subject,
                                   class_subject_teacher[ret.class_name][ret.subject]))
                  >= ret.sessions_left)))
    /\ [][\A slot \in Slots :
             (/\ RetryIteration(slot)
              /\ Timetable(Top.class_name)[slot] = None
              /\ is_teacher_available(teacher_assignments_global, Top.subject, slot,
                                      Top.teacher_id))
             => class_timetables'[Top.class_name].timetable[slot] = Top.subject]_vars

\* A retry call for 2 or more sessions returned False after undoing placements.
C25_RetryFailedAfterSearch ==
    /\ pc = "retry"
    /\ stack = <<>>
    /\ ret.kind = "false"
    /\ ret.is_retry
    /\ ret.sessions_left >= 2
    /\ ret.undone > 0

\* The step is an iteration of a first-pass call's loop on slot.
FirstPassIteration(slot) ==
    /\ stack # <<>>
    /\ ret.kind = "none"
    /\ ~Top.is_retry
    /\ slot \notin Top.tried
    /\ Len(stack') >= Len(stack)
    /\ stack'[Len(stack)].tried = Top.tried \cup {slot}

\* The score of the call's subject with the session tentatively at slot is
\* below 1.0.
TentativeBelowOne(slot) ==
    FLess(calculate_distribution_score([Timetable(Top.class_name) EXCEPT ![slot] = Top.subject],
                                       Top.subject),
          FOne)

\* C26: distribution gate.  In non-retry mode a candidate slot that is empty
\* and teacher-free is skipped, the grid and the occupancy staying as they
\* were, exactly when the distribution score of the subject with the session
\* tentatively placed there is below 1.0 and sessions_left < 5 and the
\* candidates tried so far, this one counted, are fewer than
\* max_attempts div 2; otherwise the session is committed to the slot.
C26_DistributionGate ==
    [][\A slot \in Slots :
         (/\ FirstPassIteration(slot)
          /\ Timetable(Top.class_name)[slot] = None
          /\ is_teacher_available(teacher_assignments_global, Top.subject, slot, Top.teacher_id))
         => IF /\ TentativeBelowOne(slot)
               /\ Top.sessions_left < 5
               /\ Top.attempts + 1 < Top.max_attempts \div 2
            THEN /\ class_timetables' = class_timetables
                 /\ teacher_assignments_global' = teacher_assignments_global
            ELSE /\ class_timetables'[Top.class_name].timetable
                       = [Timetable(Top.class_name) EXCEPT ![slot] = Top.subject]
                 /\ Len(stack') = Len(stack) + (IF Top.sessions_left > 1 THEN 1 ELSE 0)]_vars

\* A first-pass call committed a session although the subject's score with it
\* is below 1.0: the call that followed was entered on such a grid.
C26_CommittedBelowOne ==
    \E i \in 1..(Len(stack) - 1) :
        /\ ~stack[i].is_retry
        /\ stack[i].slot # NoSlot
        /\ FLess(calculate_distribution_score(
                     stack[i + 1].entry.ct[stack[i].class_name].timetable, stack[i].subject),
                 FOne)

\* The same-subject neighbours of slot in its row.
Neighbours(grid, subject, slot) ==
    {q \in {slot[2] - 1, slot[2] + 1} \cap PeriodRange : grid[<<slot[1], q>>] = subject}

\* The score of an empty slot without the jitter, in tenths:
\* (-15 if dayCount[d] = 0 else 6 x dayCount[d]) + 4 per same-subject
\* neighbour (+ 5 more if both) + 3 x periodCount[p] + 0.5 x dayLoad[d]
\* + 0.2 x |p - PERIODS div 2|.
ScoreTenths(grid, subject, slot) ==
    LET dayCount == Cardinality({x \in Slots : x[1] = slot[1] /\ grid[x] = subject})
        periodCount == Cardinality({x \in Slots : x[2] = slot[2] /\ grid[x] = subject})
        dayLoad == Cardinality({x \in Slots : x[1] = slot[1] /\ grid[x] # None})
        near == Cardinality(Neighbours(grid, subject, slot))
        middle == PERIODS \div 2
    IN  (IF dayCount = 0 THEN -150 ELSE 60 * dayCount)
        + 40 * near + (IF near = 2 THEN 50 ELSE 0)
        + 30 * periodCount + 5 * dayLoad
        + 2 * (IF slot[2] >= middle THEN slot[2] - middle ELSE middle - slot[2])

\* The grid a frame's call of sort_slots_by_priority was given.
GridOf(f) == f.entry.ct[f.class_name].timetable

\* C27: slot scorer result.  The list sort_slots_by_priority returns to a call
\* of backtrack_schedule holds every empty slot of the class's grid and no
\* occupied one, each with the score of the formula above before the jitter;
\* the loop takes each slot once and in ascending order of score plus a
\* jitter in [0, 1) (a slot is never taken while a slot whose score is lower
\* by 1 or more is still to come); and the grid at the entry of the loop is
\* the grid the scorer was given.
C27_SlotScorer ==
    /\ [](\A i \in 1..Len(stack) :
            /\ DOMAIN stack[i].prio = {slot \in Slots : GridOf(stack[i])[slot] = None}
            /\ \A slot \in DOMAIN stack[i].prio :
                  stack[i].prio[slot] = ScoreTenths(GridOf(stack[i]), stack[i].subject, slot)
            /\ stack[i].extra = <<>>)
    /\ [][\A slot \in Slots :
             (/\ stack # <<>>
              /\ ret.kind = "none"
              /\ Len(stack') >= Len(stack)
              /\ stack'[Len(stack)].tried = Top.tried \cup {slot}
              /\ stack'[Len(stack)].tried # Top.tried)
             => /\ slot \in DOMAIN Top.prio
                /\ \A later \in (DOMAIN Top.prio) \ (Top.tried \cup {slot}) :
                      ScoreTenths(GridOf(Top), Top.subject, slot)
                          < ScoreTenths(GridOf(Top), Top.subject, later) + 10
                /\ (Len(stack') > Len(stack) =>
                       stack'[Len(stack')].entry.ct = class_timetables')]_vars

\* A call whose list holds a slot between two sessions of the subject and a
\* slot of a day on which another subject has a session.
C27_SurroundedSlotScored ==
    /\ stack # <<>>
    /\ \E slot \in DOMAIN Top.prio : Cardinality(Neighbours(GridOf(Top), Top.subject, slot)) = 2
    /\ \E slot \in DOMAIN Top.prio :
          \E x \in Slots : x[1] = slot[1] /\ GridOf(Top)[x] \notin {None, Top.subject}

\* The step changes a grid, an assignment map or the occupancy table.
TablesChange ==
    \/ class_timetables' # class_timetables
    \/ teacher_assignments_global' # teacher_assignments_global

\* C28: optimizer sweeps are bounded.  optimize_existing_timetable is called at
\* most 3 times in a run; a further call is made only after a call that
\* relocated a session; and within a call the tables change only by a
\* relocation, which the call records in made_improvements, so a call that
\* finalizes no relocation leaves every grid, assignment map and the occupancy
\* table as it found them.
C28_SweepsBounded ==
    /\ [](sweep <= 3 /\ (pc \in {"optimize", "optimizing"} => sweep < 3))
    /\ [][(pc = "optimize" \/ pc = "optimizing") =>
             /\ ((pc = "optimizing" /\ pc' = "optimize") => opt.made_improvements)
             /\ (pc = "optimize" => ~TablesChange /\ ~opt'.made_improvements)
             /\ ((pc = "optimizing" /\ pc' = "optimizing") =>
                    /\ (opt.made_improvements => opt'.made_improvements)
                    /\ (~opt.made_improvements =>
                           (TablesChange <=> opt'.made_improvements)))
             /\ ((pc = "optimizing" /\ pc' # "optimizing") => ~TablesChange)]_vars

\* A second call, made because the first one relocated a session, is at a
\* session and has relocated nothing so far.
C28_SecondSweep ==
    /\ pc = "optimizing"
    /\ sweep = 1
    /\ opt.slots # <<>>
    /\ ~opt.made_improvements
    /\ class_timetables # pre_opt

\* C29: labels match their slot.  In the returned result the teacher label
\* stored for every occupied cell (d, p) of a class is the value the naming
\* function returns for (class, subject, d, p, assigned teacher index) with the
\* cell's own day and period, also when the optimizer relocated the session.
C29_LabelsMatchSlot ==
    pc = "done" =>
        \A c \in Classes, slot \in Slots :
            Timetable(c)[slot] # None =>
                /\ slot \in DOMAIN Assignments(c)[Timetable(c)[slot]]
                /\ Assignments(c)[Timetable(c)[slot]][slot]
                      = get_teacher_for_subject(c, Timetable(c)[slot], slot[1], slot[2],
                                                class_subject_teacher[c][Timetable(c)[slot]])

\* A returned result in which a cell carries the label of another slot.
C29_LabelOfAnotherSlot ==
    /\ pc = "done"
    /\ \E c \in Classes, slot \in Slots :
          /\ Timetable(c)[slot] # None
          /\ slot \in DOMAIN Assignments(c)[Timetable(c)[slot]]
          /\ <<Assignments(c)[Timetable(c)[slot]][slot][3],
               Assignments(c)[Timetable(c)[slot]][slot][4]>> # slot

\* The empty cells of a grid.
EmptyCells(grid) == {slot \in Slots : grid[slot] = None}

\* a < b in the lexicographic order of sequences of naturals of one length,
\* a shorter sequence counting as padded with zeros.
RECURSIVE LexLess(_, _)
LexLess(a, b) ==
    IF b = <<>> THEN FALSE
    ELSE IF a = <<>> THEN (Head(b) > 0 \/ LexLess(a, Tail(b)))
    ELSE IF Head(a) # Head(b) THEN Head(a) < Head(b)
    ELSE LexLess(Tail(a), Tail(b))

\* What is left of the run, most significant first: the phases to come, the
\* optimizer calls to come, the position inside the optimizer phase, the
\* iterations left of the phase's loop, the pairs and sessions left of the
\* optimizer call, whether the iteration's call of backtrack_schedule is still
\* to be made, then for every recursion level the candidates its loop has left
\* (shifted by 3), and last the pending return value.
Variant ==
    <<6 - PhaseRank(pc),
      3 - sweep,
      CASE pc = "optimize" -> 2 [] pc = "optimizing" -> 1 [] OTHER -> 0,
      Cardinality(Classes \X Subjects) + 1 - idx,
      Len(opt.queue),
      Len(opt.slots),
      IF stack = <<>> /\ ret.kind = "none" THEN 1 ELSE 0>>
    \o [i \in 1..Len(stack) |-> 3 + Cardinality(Untried(stack[i])) + Len(ExtraLeft(stack[i]))]
    \o <<CASE ret.kind = "false" -> 2 [] ret.kind = "none" -> 1 [] OTHER -> 0>>

\* C30: termination.  For every request with sessions <= DAYS x PERIODS and
\* teachers >= 1, generate_schedule_for_classes returns: every step of the
\* run lowers a variant that cannot fall forever.  Every call of
\* backtrack_schedule ends, each recursion level having one empty slot less
\* than the level above it; the loops of the
\* passes, of the optimizer and of the resolver stay within their lists and
\* the optimizer within 3 calls; and no phase is entered again after it was
\* left.
C30_Termination ==
    /\ [](/\ ValidInput(class_subject_data)
          /\ \A i \in 1..(Len(stack) - 1) :
                Cardinality(EmptyCells(GridOf(stack[i + 1])))
                    = Cardinality(EmptyCells(GridOf(stack[i]))) - 1
          /\ Len(stack) <= DAYS * PERIODS
          /\ idx <= Cardinality(RequestedPairs) + 1
          /\ sweep <= 3)
    /\ [][/\ LexLess(Variant', Variant)
          /\ PhaseRank(pc') >= PhaseRank(pc)]_vars

\* A run returned after its retry pass searched and failed, with a class's
\* week full.
C30_ReturnedAfterSearch ==
    /\ pc = "done"
    /\ final_failures # {}
    /\ \E c \in Classes : EmptyCells(Timetable(c)) = {}

\* The number of sessions pair x asks for.
RequestedCount(x) == class_subject_data[x[1]][x[2]].sessions

\* C31: a failed pair is all-or-nothing.  From the return of its first-pass
\* call until its retry call a pair on the failed list holds no cell, so when
\* the retry pass starts every failed pair holds zero cells and the retry call
\* asks for the full requested count; in the returned result a pair that
\* failed the first pass holds either no cell or exactly its requested count.
C31_FailedAllOrNothing ==
    /\ []((stack = <<>> /\ ret.kind = "none") =>
            \A x \in FailedMap :
                /\ PlacedSessions(class_timetables, x[1], x[2]) \in {0, RequestedCount(x)}
                /\ (pc # "done" /\ ~(pc = "retry" /\ \E i \in 1..(idx - 1) : i <= Len(failed_schedules)
                                      /\ <<failed_schedules[i][1], failed_schedules[i][2]>> = x))
                      => PlacedSessions(class_timetables, x[1], x[2]) = 0)
    /\ [][(pc = "retry" /\ stack = <<>> /\ stack' # <<>>) =>
             /\ stack'[1].is_retry
             /\ <<stack'[1].class_name, stack'[1].subject>> \in FailedMap
             /\ stack'[1].sessions_left
                   = RequestedCount(<<stack'[1].class_name, stack'[1].subject>>)]_vars

\* A returned result in which one failed pair holds its full count of 2 or
\* more sessions and another holds none.
C31_OneFilledOneEmpty ==
    /\ pc = "done"
    /\ \E x \in FailedMap : /\ RequestedCount(x) >= 2
                             /\ PlacedSessions(class_timetables, x[1], x[2]) = RequestedCount(x)
    /\ \E x \in FailedMap : PlacedSessions(class_timetables, x[1], x[2]) = 0

\* C32: the attempt bound is inert.  In every call of backtrack_schedule that
\* generate_schedule_for_classes makes, the attempt counter never exceeds the
\* number of slots that were empty at the call's entry, hence never
\* DAYS x PERIODS (35 on the 5 x 7 grid), and stays below max_attempts div 2
\* (100 or 150); so a call returns False only after its loop has taken every
\* slot of its list, and the first-pass gate skips an empty, teacher-free
\* slot exactly when the tentative score is below 1.0 and sessions_left < 5,
\* however many slots were tried.
C32_AttemptBoundInert ==
    /\ [](\A i \in 1..Len(stack) :
            /\ stack[i].attempts <= Cardinality(EmptyCells(GridOf(stack[i])))
            /\ stack[i].attempts <= DAYS * PERIODS
            /\ stack[i].attempts < stack[i].max_attempts \div 2)
    /\ [][/\ (stack # <<>> /\ ret.kind = "none" /\ ret'.kind = "false") =>
                (/\ DOMAIN Top.prio \subseteq Top.tried
                 /\ Top.attempts = Cardinality(EmptyCells(GridOf(Top))))
          /\ \A slot \in Slots :
                (/\ FirstPassIteration(slot)
                 /\ Timetable(Top.class_name)[slot] = None
                 /\ is_teacher_available(teacher_assignments_global, Top.subject, slot,
                                         Top.teacher_id))
                => ((class_timetables' = class_timetables)
                      <=> (TentativeBelowOne(slot) /\ Top.sessions_left < 5))]_vars

\* A first-pass call for 2 or more sessions has taken every slot of the week.
C32_WholeWeekTried ==
    \E i \in 1..Len(stack) :
        /\ stack[i].attempts = DAYS * PERIODS
        /\ ~stack[i].is_retry
        /\ stack[i].sessions_left > 1

\* The day of slot holds no session of the subject on the grid.
FreshDay(grid, subject, slot) == \A x \in Slots : x[1] = slot[1] => grid[x] # subject

\* C33: day spread dominates jitter.  In the list sort_slots_by_priority
\* returns, every empty slot on a day without a session of the subject comes
\* before every empty slot on a day that holds one, whatever the grid and the
\* jitter: the score of the first is lower by 1 or more before the jitter, and
\* the loop of backtrack_schedule takes no slot of a day that holds the subject
\* while a slot of a day without it is still to come.
C33_DaySpreadDominates ==
    /\ [](\A i \in 1..Len(stack) : \A a \in DOMAIN stack[i].prio, b \in DOMAIN stack[i].prio :
            (FreshDay(GridOf(stack[i]), stack[i].subject, a)
               /\ ~FreshDay(GridOf(stack[i]), stack[i].subject, b))
            => stack[i].prio[a] + 10 <= stack[i].prio[b])
    /\ [][\A slot \in Slots :
             (/\ stack # <<>>
              /\ ret.kind = "none"
              /\ Len(stack') >= Len(stack)
              /\ stack'[Len(stack)].tried = Top.tried \cup {slot}
              /\ slot \notin Top.tried
              /\ ~FreshDay(GridOf(Top), Top.subject, slot))
             => \A a \in (DOMAIN Top.prio) \ Top.tried :
                    ~FreshDay(GridOf(Top), Top.subject, a)]_vars

\* A call's loop has taken a slot of a day that holds the subject, after the
\* slots of a day without it which its list also holds.
C33_UsedDayTakenLast ==
    /\ stack # <<>>
    /\ \E a \in DOMAIN Top.prio : FreshDay(GridOf(Top), Top.subject, a)
    /\ \E b \in Top.tried : ~FreshDay(GridOf(Top), Top.subject, b)
    /\ \E x \in Slots : GridOf(Top)[x] \notin {None, Top.subject}

====
